---- MODULE Spec2Model ----
(***************************************************************************)
(* Model of the DIV timeline engine: timeline_system.py (BranchState,      *)
(* Timeline, Physics), game_logic.py (GameLogic) and game_controller.py    *)
(* (GameController).                                                       *)
(*                                                                         *)
(* Two specifications share the variables:                                 *)
(*   Spec    the GameController driven from reset() on a LevelSource;      *)
(*   SpecFn  the Timeline functions and check_victory applied to sessions  *)
(*           whose branches are drawn from a bounded set of well formed    *)
(*           BranchStates (the shape test_merge_logic.py builds by hand).  *)
(***************************************************************************)
EXTENDS Integers, Sequences, FiniteSets, TLC

VARIABLES source, main_branch, sub_branch, current_focus, has_branched,
          collapsed, victory, history, input_log, last_op, ret, rb, fn, win

vars == <<source, main_branch, sub_branch, current_focus, has_branched,
          collapsed, victory, history, input_log, last_op, ret, rb, fn, win>>

session == <<main_branch, sub_branch, current_focus, has_branched,
             collapsed, victory, history, input_log>>

(* ------------------------------ bounds -------------------------------- *)
GridSize == 3
MaxHist == 4
\* histories of the sessions the main loops drive
MaxLoopHist == 3

(* -------------------------- values of fields -------------------------- *)
\* the locals of the main loop that runs the controller: which loop it is,
\* v_press_time is set (game_main.py), slide_direction, merge_preview_active,
\* merge_preview_swap_start_time is set, merge_animation_start_time is set
\* (game_main_arc.py); unsettled and overlap keep the account of the settle
\* order: an accepted intent has not been followed by update_physics yet, and
\* the last handler has applied an accepted intent in that situation
WinOf(loop) ==
  [loop |-> loop, v_press |-> FALSE, slide_direction |-> 0,
   merge_preview_active |-> FALSE, swap |-> FALSE, merge_animation |-> FALSE,
   unsettled |-> FALSE, overlap |-> FALSE]

\* no main loop: the controller is driven directly
NoWin == WinOf("none")

\* Python None in an Optional[int] field (Entity.holder, Entity.carrier)
None == -1
\* an attribute that was never assigned on the object (reading it raises)
Unset == -2
\* target_pos=None of converge_one
NoPos == <<>>

Pos == (0..(GridSize - 1)) \X (0..(GridSize - 1))

Directions == {<<0, -1>>, <<0, 1>>, <<-1, 0>>, <<1, 0>>}

\* the dataclass Entity with its defaults; carrier is not a declared field
Entity(uid, type, pos) ==
  [uid |-> uid, type |-> type, pos |-> pos, collision |-> 1, weight |-> 1,
   z |-> 0, holder |-> None, direction |-> <<0, 1>>, carrier |-> Unset]

\* BranchState() : no entities, no terrain, grid_size 0; also stands for None
NoBranch == [entities |-> <<>>, terrain |-> <<>>, grid_size |-> 0]

(* ---------------------------- small helpers --------------------------- *)
RECURSIVE SumSeq(_)
SumSeq(s) == IF s = <<>> THEN 0 ELSE Head(s) + SumSeq(Tail(s))

MapSeq(s, F(_)) == [i \in 1..Len(s) |-> F(s[i])]

Range(s) == {s[i] : i \in 1..Len(s)}

Add(p, d) == <<p[1] + d[1], p[2] + d[2]>>

(* ----------------------------- BranchState ---------------------------- *)
\* Timeline._copy_entity / the Entity(...) call of BranchState.copy: only the
\* declared fields are copied, so an ad-hoc attribute is not carried over
_copy_entity(e) == [e EXCEPT !.carrier = Unset]

Copy(b) == [entities |-> MapSeq(b.entities, _copy_entity),
            terrain |-> b.terrain, grid_size |-> b.grid_size]

player(b) == b.entities[1]

\* dict.get(pos): the terrain of a cell, "NONE" when the key is missing;
\* the model stores FLOOR for the cells the parser leaves out of the dict
TerrainGet(b, pos) ==
  IF pos \in DOMAIN b.terrain THEN b.terrain[pos] ELSE "NONE"

get_entities_by_uid(b, uid) == SelectSeq(b.entities, LAMBDA e : e.uid = uid)

is_shadow(b, uid) ==
  LET instances == get_entities_by_uid(b, uid)
  IN  IF instances = <<>> THEN FALSE
      ELSE Cardinality({e.pos : e \in Range(instances)}) > 1

get_held_items(b) ==
  MapSeq(SelectSeq(b.entities, LAMBDA e : e.holder = 0), LAMBDA e : e.uid)

grounded(e) == e.z = 0

is_hole_filled(b, pos) ==
  \E i \in 1..Len(b.entities) : b.entities[i].pos = pos /\ b.entities[i].z = -1

\* index of the first grounded box at pos, 0 when there is none
find_box_at(b, pos) ==
  LET I == {i \in 1..Len(b.entities) :
              /\ b.entities[i].pos = pos
              /\ b.entities[i].type = "box"
              /\ grounded(b.entities[i])}
  IN  IF I = {} THEN 0 ELSE CHOOSE i \in I : \A j \in I : i <= j

has_box_at(b, pos) == find_box_at(b, pos) # 0

sum_ground_collision_at(b, pos) ==
  SumSeq(MapSeq(SelectSeq(b.entities, LAMBDA e : e.pos = pos /\ e.z >= 0),
                LAMBDA e : e.collision))

sum_weight_at(b, pos) ==
  SumSeq(MapSeq(SelectSeq(b.entities, LAMBDA e : e.pos = pos),
                LAMBDA e : e.weight))

(* ------------------------------- Physics ------------------------------ *)
in_bound(pos, b) ==
  /\ 0 <= pos[1] /\ pos[1] < b.grid_size
  /\ 0 <= pos[2] /\ pos[2] < b.grid_size

\* mutant of collision_at: an unfilled hole has the terrain base of a floor
collision_at_OpenHoleIsFloor(pos, b) ==
  IF TerrainGet(b, pos) = "HOLE" THEN sum_ground_collision_at(b, pos)
  ELSE IF TerrainGet(b, pos) = "WALL" THEN 255
  ELSE IF ~in_bound(pos, b) THEN 255
  ELSE SumSeq(MapSeq(SelectSeq(b.entities, LAMBDA e : e.pos = pos),
                     LAMBDA e : e.collision))

collision_at(pos, b) ==
  IF TerrainGet(b, pos) = "HOLE"
  THEN (IF is_hole_filled(b, pos) THEN 0 ELSE -1)
       + sum_ground_collision_at(b, pos)
  ELSE IF TerrainGet(b, pos) = "WALL" THEN 255
  ELSE IF ~in_bound(pos, b) THEN 255
  ELSE SumSeq(MapSeq(SelectSeq(b.entities, LAMBDA e : e.pos = pos),
                     LAMBDA e : e.collision))

weight_at(pos, b) == sum_weight_at(b, pos)

all_switches_activated(b) ==
  \A pos \in DOMAIN b.terrain :
     b.terrain[pos] = "SWITCH" => weight_at(pos, b) > 0

check_fall(b) == collision_at(player(b).pos, b) < player(b).collision

\* mutant of trigger_fill: a hole that is already filled takes the box too
trigger_fill_IgnoresFilled(b, i, pos) ==
  IF TerrainGet(b, pos) # "HOLE" THEN b
  ELSE [b EXCEPT !.entities[i].z = -1]

\* trigger_fill(state, box, pos) with box = state.entities[i]
trigger_fill(b, i, pos) ==
  IF TerrainGet(b, pos) # "HOLE" THEN b
  ELSE IF is_hole_filled(b, pos) THEN b
  ELSE [b EXCEPT !.entities[i].z = -1]

effective_capacity(b, at_pos) ==
  LET pos == IF at_pos # NoPos THEN at_pos ELSE player(b).pos
      t == IF pos \in DOMAIN b.terrain THEN b.terrain[pos] ELSE "FLOOR"
  IN  IF t = "NO_CARRY" THEN 0 ELSE 1

\* one "for e in state.entities" pass of step, entities i..Len in list order
RECURSIVE StepPass(_, _)
StepPass(b, i) ==
  IF i > Len(b.entities) THEN b
  ELSE LET e == b.entities[i]
       IN  IF /\ e.type = "box" /\ grounded(e)
              /\ TerrainGet(b, e.pos) = "HOLE"
              /\ ~is_hole_filled(b, e.pos)
           THEN StepPass([b EXCEPT !.entities[i].z = -1], i + 1)
           ELSE StepPass(b, i + 1)

\* the "while True" loop of step: passes until one changes nothing
RECURSIVE StepLoop(_)
StepLoop(b) == LET n == StepPass(b, 1) IN IF n = b THEN b ELSE StepLoop(n)

\* mutant of step: the settling ends as soon as one box has been buried
step_EndsAtFirstFill(b) ==
  LET I == {i \in 1..Len(b.entities) :
              /\ b.entities[i].type = "box" /\ grounded(b.entities[i])
              /\ TerrainGet(b, b.entities[i].pos) = "HOLE"
              /\ ~is_hole_filled(b, b.entities[i].pos)}
      s == IF I = {} THEN b
           ELSE [b EXCEPT !.entities[CHOOSE i \in I : \A j \in I : i <= j].z = -1]
  IN  [state |-> s, result |-> IF check_fall(s) THEN "FALL" ELSE "OK"]

\* mutant of step: the holes are not settled, only the fall is checked
step_ChecksFallOnly(b) ==
  [state |-> b, result |-> IF check_fall(b) THEN "FALL" ELSE "OK"]

\* Physics.step: the settled state and the PhysicsResult
step(b) ==
  LET s == StepLoop(b)
  IN  [state |-> s, result |-> IF check_fall(s) THEN "FALL" ELSE "OK"]

(* ------------------------------ Timeline ------------------------------ *)
diverge(b) == Copy(b)

_entity_priority(e) == <<IF e.holder # None THEN 1 ELSE 0, e.z>>

\* tuple comparison a < b on priorities
PrioLess(a, b) == a[1] < b[1] \/ (a[1] = b[1] /\ a[2] < b[2])

\* mutant of SameKey: instances grouped by uid alone
SameKey_UidOnly(a, b) == a.uid = b.uid

SameKey(a, b) == a.uid = b.uid /\ a.pos = b.pos

\* max(instances, key=_entity_priority) of the (uid, pos) group of all[i]:
\* the first instance of the group that no other one beats
BestOfGroup(all, i) ==
  LET G == {j \in 1..Len(all) : SameKey(all[j], all[i])}
      b == CHOOSE j \in G :
             /\ \A k \in G : ~PrioLess(_entity_priority(all[j]),
                                       _entity_priority(all[k]))
             /\ \A k \in G : k < j => PrioLess(_entity_priority(all[k]),
                                              _entity_priority(all[j]))
  IN  all[b]

\* mutant of DropAtSub: the dropped instance keeps the collision of a held one
DropAtSub_KeepsCollision(copied, drop_uids, sub) ==
  IF copied.uid \in drop_uids /\ copied.holder = 0
  THEN [copied EXCEPT !.holder = None, !.z = 0, !.pos = player(sub).pos]
  ELSE copied

\* mutant of DropAtSub: every instance whose uid must drop falls, held or not
DropAtSub_ByIdOnly(copied, drop_uids, sub) ==
  IF copied.uid \in drop_uids
  THEN [copied EXCEPT !.holder = None, !.z = 0, !.collision = 1,
                      !.pos = player(sub).pos]
  ELSE copied

\* lines 197-202: a held instance whose uid must drop falls at sub's player
DropAtSub(copied, drop_uids, sub) ==
  IF copied.uid \in drop_uids /\ copied.holder = 0
  THEN [copied EXCEPT !.holder = None, !.z = 0, !.collision = 1,
                      !.pos = player(sub).pos]
  ELSE copied

\* the loop over by_uid_pos.values(): groups in order of first insertion
RECURSIVE ConvergeGroups(_, _, _, _)
ConvergeGroups(all, i, drop_uids, sub) ==
  IF i > Len(all) THEN <<>>
  ELSE (IF \A j \in 1..(i - 1) : ~SameKey(all[j], all[i])
        THEN <<DropAtSub(_copy_entity(BestOfGroup(all, i)), drop_uids, sub)>>
        ELSE <<>>)
       \o ConvergeGroups(all, i + 1, drop_uids, sub)

\* mutant of DropUids: main's own held uids are not taken out of the drop set
DropUids_NoDifference(main, sub) ==
  IF Range(get_held_items(main)) # {} THEN Range(get_held_items(sub)) ELSE {}

\* lines 177-180 of converge
DropUids(main, sub) ==
  LET main_held_uids == Range(get_held_items(main))
      sub_held_uids == Range(get_held_items(sub))
  IN  IF main_held_uids # {} THEN sub_held_uids \ main_held_uids ELSE {}

\* mutant of converge: the player is appended after the merged entities
converge_PlayerLast(main, sub) ==
  LET all_entities == SelectSeq(main.entities, LAMBDA e : e.uid # 0)
                      \o SelectSeq(sub.entities, LAMBDA e : e.uid # 0)
  IN  [entities |-> ConvergeGroups(all_entities, 1, DropUids(main, sub), sub)
                    \o <<_copy_entity(player(main))>>,
       terrain |-> main.terrain,
       grid_size |-> main.grid_size]

converge(main, sub) ==
  LET all_entities == SelectSeq(main.entities, LAMBDA e : e.uid # 0)
                      \o SelectSeq(sub.entities, LAMBDA e : e.uid # 0)
  IN  [entities |-> <<_copy_entity(player(main))>>
                    \o ConvergeGroups(all_entities, 1, DropUids(main, sub), sub),
       terrain |-> main.terrain,
       grid_size |-> main.grid_size]

\* mutant of ConvergeOneTarget: the instance at target_pos beats a held one
ConvergeOneTarget_PosFirst(state, target_uid, target_pos) ==
  LET I == {i \in 1..Len(state.entities) : state.entities[i].uid = target_uid}
      First(S) == CHOOSE i \in S : \A j \in S : i <= j
      H == {i \in I : state.entities[i].holder = 0}
      P == {i \in I : state.entities[i].pos = target_pos}
  IN  IF I = {} THEN 0
      ELSE IF target_pos # NoPos /\ P # {} THEN First(P)
      ELSE IF H # {} THEN First(H)
      ELSE First(I)

\* index in state.entities of the instance converge_one keeps, 0 if no instance
ConvergeOneTarget(state, target_uid, target_pos) ==
  LET I == {i \in 1..Len(state.entities) : state.entities[i].uid = target_uid}
      First(S) == CHOOSE i \in S : \A j \in S : i <= j
      H == {i \in I : state.entities[i].holder = 0}
      P == {i \in I : state.entities[i].pos = target_pos}
  IN  IF I = {} THEN 0
      ELSE IF H # {} THEN First(H)
      ELSE IF target_pos # NoPos THEN (IF P # {} THEN First(P) ELSE First(I))
      ELSE First(I)

\* mutant of converge_one: only the instances at the kept one's cell go away
converge_one_SameCellOnly(state, target_uid, target_pos) ==
  LET t == ConvergeOneTarget(state, target_uid, target_pos)
  IN  IF t = 0 THEN state
      ELSE [state EXCEPT !.entities =
              SelectSeq(state.entities,
                        LAMBDA e : ~(e.uid = target_uid
                                     /\ e.pos = state.entities[t].pos))
              \o <<state.entities[t]>>]

\* mutant of converge_one: the kept instance is not put back
converge_one_KeepsNone(state, target_uid, target_pos) ==
  LET t == ConvergeOneTarget(state, target_uid, target_pos)
  IN  IF t = 0 THEN state
      ELSE [state EXCEPT !.entities =
              SelectSeq(state.entities, LAMBDA e : e.uid # target_uid)]

\* converge_one: the state afterwards; the returned target is the last entity
converge_one(state, target_uid, target_pos) ==
  LET t == ConvergeOneTarget(state, target_uid, target_pos)
  IN  IF t = 0 THEN state
      ELSE [state EXCEPT !.entities =
              SelectSeq(state.entities, LAMBDA e : e.uid # target_uid)
              \o <<state.entities[t]>>]

\* mutant of SettleOne: the kept instance is not brought to the player
SettleOne_NoMove(state, uid) ==
  LET s == converge_one(state, uid, NoPos)
      n == Len(s.entities)
  IN  [s EXCEPT !.entities[n].z = 1, !.entities[n].holder = 0,
                !.entities[n].collision = 0]

\* body of the loop of settle_carried for one uid
SettleOne(state, uid) ==
  LET s == converge_one(state, uid, NoPos)
      n == Len(s.entities)
  IN  [s EXCEPT !.entities[n].z = 1, !.entities[n].holder = 0,
                !.entities[n].collision = 0,
                !.entities[n].pos = player(s).pos]

\* "for uid in held_uids": a set of small ints iterates in increasing order
RECURSIVE SettleAll(_, _)
SettleAll(state, uids) ==
  IF uids = {} THEN state
  ELSE LET u == CHOOSE x \in uids : \A y \in uids : x <= y
       IN  SettleAll(SettleOne(state, u), uids \ {u})

settle_carried(state) == SettleAll(state, Range(get_held_items(state)))

(* ------------------------------ GameLogic ----------------------------- *)
can_move(state, direction) ==
  LET new_pos == Add(player(state).pos, direction)
      collision == collision_at(new_pos, state)
      pushable == SelectSeq(state.entities,
                    LAMBDA e : e.pos = new_pos /\ e.collision > 0 /\ grounded(e))
      push_pos == Add(new_pos, direction)
  IN  IF ~(/\ 0 <= new_pos[1] /\ new_pos[1] < state.grid_size
           /\ 0 <= new_pos[2] /\ new_pos[2] < state.grid_size) THEN FALSE
      ELSE IF TerrainGet(state, new_pos) = "WALL" THEN FALSE
      ELSE IF collision < 0 THEN FALSE
      ELSE IF collision > 0
           THEN IF \E e \in Range(pushable) : is_shadow(state, e.uid) THEN FALSE
                ELSE IF ~(/\ 0 <= push_pos[1] /\ push_pos[1] < state.grid_size
                          /\ 0 <= push_pos[2] /\ push_pos[2] < state.grid_size)
                     THEN FALSE
                ELSE IF TerrainGet(state, push_pos) = "WALL" THEN FALSE
                ELSE IF collision_at(push_pos, state) > 0 THEN FALSE
                ELSE TRUE
      ELSE TRUE

\* indices of entities_at_new of execute_move
EntitiesAtNew(state, new_pos) ==
  {i \in 1..Len(state.entities) :
     /\ state.entities[i].pos = new_pos
     /\ state.entities[i].collision > 0
     /\ grounded(state.entities[i])}

\* "for e in entities_at_new: trigger_fill(state, e, push_pos)", list order
RECURSIVE FillPushed(_, _, _)
FillPushed(state, I, push_pos) ==
  IF I = {} THEN state
  ELSE LET i == CHOOSE x \in I : \A y \in I : x <= y
       IN  FillPushed(trigger_fill(state, i, push_pos), I \ {i}, push_pos)

\* lines 58-71 of execute_move: push, fill, move the player
MovePlayerAndPush(state, direction) ==
  LET new_pos == Add(player(state).pos, direction)
      I == EntitiesAtNew(state, new_pos)
      push_pos == Add(new_pos, direction)
      s1 == [state EXCEPT !.entities =
               [i \in 1..Len(state.entities) |->
                  IF i \in I THEN [state.entities[i] EXCEPT !.pos = push_pos]
                  ELSE state.entities[i]]]
      s2 == FillPushed(s1, I, push_pos)
  IN  [s2 EXCEPT !.entities[1].pos = new_pos,
                 !.entities[1].direction = direction]

\* lines 74-76 of execute_move: "for e in state.entities: if e.carrier == 0".
\* Reading e.carrier raises AttributeError on the first entity that never got
\* the attribute; the entities before it have already been handled.
FirstWithoutCarrier(state) ==
  LET U == {i \in 1..Len(state.entities) : state.entities[i].carrier = Unset}
  IN  IF U = {} THEN 0 ELSE CHOOSE i \in U : \A j \in U : i <= j

FollowCarrier(state, new_pos) ==
  LET u == FirstWithoutCarrier(state)
      last == IF u = 0 THEN Len(state.entities) ELSE u - 1
  IN  [state |-> [state EXCEPT !.entities =
                    [i \in 1..Len(state.entities) |->
                       IF i <= last /\ state.entities[i].carrier = 0
                       THEN [state.entities[i] EXCEPT !.pos = new_pos]
                       ELSE state.entities[i]]],
       raised |-> u # 0]

execute_move(state, direction) ==
  FollowCarrier(MovePlayerAndPush(state, direction),
                Add(player(state).pos, direction))

try_pickup(state) ==
  LET front_pos == Add(player(state).pos, player(state).direction)
      t == find_box_at(state, front_pos)
      s == converge_one(state, state.entities[t].uid, NoPos)
      n == Len(s.entities)
  IN  IF t = 0 THEN [state |-> state, ret |-> "False"]
      ELSE [state |-> [s EXCEPT !.entities[n].carrier = 0,
                                !.entities[n].collision = 0,
                                !.entities[n].pos = player(s).pos],
            ret |-> "True"]

\* lines 122-130 of try_drop, for the indices in held
DropHeld(state, held, front_pos) ==
  LET s1 == [state EXCEPT !.entities =
               [i \in 1..Len(state.entities) |->
                  IF i \in held
                  THEN [state.entities[i] EXCEPT !.carrier = None,
                                                 !.collision = 1,
                                                 !.pos = front_pos]
                  ELSE state.entities[i]]]
  IN  FillPushed(s1, held, front_pos)

try_drop(state) ==
  LET front_pos == Add(player(state).pos, player(state).direction)
      held == {i \in 1..Len(state.entities) : state.entities[i].carrier = 0}
  IN  IF FirstWithoutCarrier(state) # 0
      THEN [state |-> state, ret |-> "AttributeError"]
      ELSE IF held = {} THEN [state |-> state, ret |-> "False"]
      ELSE IF ~(/\ 0 <= front_pos[1] /\ front_pos[1] < state.grid_size
                /\ 0 <= front_pos[2] /\ front_pos[2] < state.grid_size)
           THEN [state |-> state, ret |-> "False"]
      ELSE IF TerrainGet(state, front_pos) = "WALL"
           THEN [state |-> state, ret |-> "False"]
      ELSE IF collision_at(front_pos, state) > 0
           THEN [state |-> state, ret |-> "False"]
      ELSE [state |-> DropHeld(state, held, front_pos), ret |-> "True"]

(* ------------------------------- levels ------------------------------- *)
\* LevelSource.terrain as parse_dual_layer builds it from a floor map; the
\* cells it leaves out of the dict ('.') are stored as FLOOR
\*    # . .        . . .
\*    V . H        P B .
\*    G S .        . . .
Terrain1 ==
  [p \in Pos |->
     IF p = <<0, 0>> THEN "WALL"
     ELSE IF p = <<0, 1>> THEN "BRANCH2"
     ELSE IF p = <<2, 1>> THEN "HOLE"
     ELSE IF p = <<0, 2>> THEN "GOAL"
     ELSE IF p = <<1, 2>> THEN "SWITCH"
     ELSE "FLOOR"]

\*    H G .        . . .
\*    v . #        P B .
\*    . . S        B . .
Terrain2 ==
  [p \in Pos |->
     IF p = <<0, 0>> THEN "HOLE"
     ELSE IF p = <<1, 0>> THEN "GOAL"
     ELSE IF p = <<0, 1>> THEN "BRANCH1"
     ELSE IF p = <<2, 1>> THEN "WALL"
     ELSE IF p = <<2, 2>> THEN "SWITCH"
     ELSE "FLOOR"]

\* a level whose objects layer puts the player and a box over Hole cells
\*    . G .        . . .
\*    H H .        P B .
\*    . . .        . . .
Terrain3 ==
  [p \in Pos |->
     IF p = <<1, 0>> THEN "GOAL"
     ELSE IF p = <<0, 1>> THEN "HOLE"
     ELSE IF p = <<1, 1>> THEN "HOLE"
     ELSE "FLOOR"]

\* a level with a branch point under the player and a box over a Hole cell
\* that has a Wall behind it
\*    . G .        . . .
\*    v H #        P B .
\*    . . .        . . .
Terrain4 ==
  [p \in Pos |->
     IF p = <<1, 0>> THEN "GOAL"
     ELSE IF p = <<0, 1>> THEN "BRANCH4"
     ELSE IF p = <<1, 1>> THEN "HOLE"
     ELSE IF p = <<2, 1>> THEN "WALL"
     ELSE "FLOOR"]

\* Level 5: the player starts on the Goal of a level without Switch cells
\*   . . .      . . .
\*   G . .      P B .
\*   . . .      . . .
Terrain5 ==
  [p \in Pos |->
     IF p = <<0, 1>> THEN "GOAL"
     ELSE "FLOOR"]

\* Level 6: the player starts on a NoCarry cell, facing a box
\*   . . .      . . .
\*   c . .      P . .
\*   . . .      B . .
Terrain6 ==
  [p \in Pos |->
     IF p = <<0, 1>> THEN "NO_CARRY"
     ELSE "FLOOR"]

\* entity_definitions: element uid+1 is the (type, pos) of uid
Levels ==
  { [grid_size |-> GridSize, terrain |-> Terrain1,
     entity_definitions |-> << <<"player", <<0, 1>> >>, <<"box", <<1, 1>> >> >>],
    [grid_size |-> GridSize, terrain |-> Terrain2,
     entity_definitions |-> << <<"player", <<0, 1>> >>, <<"box", <<1, 1>> >>,
                               <<"box", <<0, 2>> >> >>],
    [grid_size |-> GridSize, terrain |-> Terrain3,
     entity_definitions |-> << <<"player", <<0, 1>> >>, <<"box", <<1, 1>> >> >>],
    [grid_size |-> GridSize, terrain |-> Terrain4,
     entity_definitions |-> << <<"player", <<0, 1>> >>, <<"box", <<1, 1>> >> >>],
    [grid_size |-> GridSize, terrain |-> Terrain5,
     entity_definitions |-> << <<"player", <<0, 1>> >>, <<"box", <<1, 1>> >> >>],
    [grid_size |-> GridSize, terrain |-> Terrain6,
     entity_definitions |-> << <<"player", <<0, 1>> >>, <<"box", <<0, 2>> >> >>] }

init_branch_from_source(src) ==
  [entities |-> [i \in 1..Len(src.entity_definitions) |->
                   Entity(i - 1, src.entity_definitions[i][1],
                          src.entity_definitions[i][2])],
   terrain |-> src.terrain,
   grid_size |-> src.grid_size]

(* --------------------------- GameController --------------------------- *)
\* the GameSnapshot _save_snapshot appends
GameSnapshot(m, s, f, h) ==
  [main_branch |-> Copy(m),
   sub_branch |-> IF s # NoBranch THEN Copy(s) ELSE NoBranch,
   current_focus |-> f,
   has_branched |-> h]

get_active_branch == IF current_focus = 0 THEN main_branch ELSE sub_branch

\* the process died on an uncaught exception (neither main loop catches any)
Crashed == ret = "AttributeError"

\* room left in the bounded history
HistRoom == Len(history) < MaxHist

Running == ~Crashed /\ HistRoom

\* mutant of SetActive: the two branches are one object, so an assignment
\* through either shows in both
SetActive_Aliased(b) ==
  IF has_branched THEN main_branch' = b /\ sub_branch' = b
  ELSE main_branch' = b /\ UNCHANGED sub_branch

\* assignment through the reference get_active_branch returned
SetActive(b) ==
  IF current_focus = 0
  THEN main_branch' = b /\ UNCHANGED sub_branch
  ELSE sub_branch' = b /\ UNCHANGED main_branch

\* mutant of LogAndSave: the snapshot is saved but the key is not logged
LogAndSave_SnapshotOnly(key) ==
  /\ input_log' = input_log
  /\ history' = Append(history, GameSnapshot(main_branch', sub_branch',
                                             current_focus', has_branched'))

\* input_log.append(key); _save_snapshot() on the new state
LogAndSave(key) ==
  /\ input_log' = Append(input_log, key)
  /\ history' = Append(history, GameSnapshot(main_branch', sub_branch',
                                             current_focus', has_branched'))

Reset ==
  /\ ~Crashed
  /\ main_branch' = init_branch_from_source(source)
  /\ sub_branch' = NoBranch
  /\ current_focus' = 0
  /\ has_branched' = FALSE
  /\ collapsed' = FALSE
  /\ victory' = FALSE
  /\ input_log' = <<>>
  /\ history' = <<GameSnapshot(main_branch', NoBranch, 0, FALSE)>>
  /\ last_op' = "reset"
  /\ ret' = "None"
  /\ UNCHANGED <<win, source, rb, fn>>

\* mutant of Undo: at the boundary the initial snapshot is restored anyway
Undo_RestoresAtBoundary ==
  /\ ~Crashed
  /\ last_op' = "undo"
  /\ LET h == IF Len(history) <= 1 THEN history
              ELSE SubSeq(history, 1, Len(history) - 1)
         snapshot == h[Len(h)]
     IN  /\ history' = h
         /\ input_log' = IF Len(history) > 1 /\ input_log # <<>>
                         THEN SubSeq(input_log, 1, Len(input_log) - 1)
                         ELSE input_log
         /\ main_branch' = Copy(snapshot.main_branch)
         /\ sub_branch' = IF snapshot.sub_branch # NoBranch
                          THEN Copy(snapshot.sub_branch) ELSE NoBranch
         /\ current_focus' = snapshot.current_focus
         /\ has_branched' = snapshot.has_branched
         /\ collapsed' = FALSE
         /\ victory' = FALSE
         /\ ret' = IF Len(history) <= 1 THEN "False" ELSE "True"
  /\ UNCHANGED <<win, source, rb, fn>>

\* mutant of Undo: restores the snapshot it has just popped
Undo_RestoresPopped ==
  /\ ~Crashed
  /\ last_op' = "undo"
  /\ IF Len(history) <= 1
     THEN /\ ret' = "False"
          /\ UNCHANGED session
     ELSE LET snapshot == history[Len(history)]
          IN  /\ history' = SubSeq(history, 1, Len(history) - 1)
              /\ input_log' = IF input_log # <<>>
                              THEN SubSeq(input_log, 1, Len(input_log) - 1)
                              ELSE input_log
              /\ main_branch' = Copy(snapshot.main_branch)
              /\ sub_branch' = IF snapshot.sub_branch # NoBranch
                               THEN Copy(snapshot.sub_branch) ELSE NoBranch
              /\ current_focus' = snapshot.current_focus
              /\ has_branched' = snapshot.has_branched
              /\ collapsed' = FALSE
              /\ victory' = FALSE
              /\ ret' = "True"
  /\ UNCHANGED <<win, source, rb, fn>>

Undo ==
  /\ ~Crashed
  /\ last_op' = "undo"
  /\ IF Len(history) <= 1
     THEN /\ ret' = "False"
          /\ UNCHANGED session
     ELSE LET h == SubSeq(history, 1, Len(history) - 1)
              snapshot == h[Len(h)]
          IN  /\ history' = h
              /\ input_log' = IF input_log # <<>>
                              THEN SubSeq(input_log, 1, Len(input_log) - 1)
                              ELSE input_log
              /\ main_branch' = Copy(snapshot.main_branch)
              /\ sub_branch' = IF snapshot.sub_branch # NoBranch
                               THEN Copy(snapshot.sub_branch) ELSE NoBranch
              /\ current_focus' = snapshot.current_focus
              /\ has_branched' = snapshot.has_branched
              /\ collapsed' = FALSE
              /\ victory' = FALSE
              /\ ret' = "True"
  /\ UNCHANGED <<win, source, rb, fn>>

UpdatePhysics ==
  /\ ~Crashed
  /\ LET r == step(get_active_branch)
     IN  /\ SetActive(r.state)
         /\ collapsed' = IF r.result = "FALL" THEN TRUE ELSE collapsed
  /\ last_op' = "update_physics"
  /\ ret' = "None"
  /\ UNCHANGED <<win, source, current_focus, has_branched, victory, history,
                 input_log, rb, fn>>

get_merge_preview ==
  IF ~has_branched THEN main_branch
  ELSE LET focused == IF current_focus = 0 THEN main_branch ELSE sub_branch
           other == IF current_focus = 0 THEN sub_branch ELSE main_branch
       IN  settle_carried(Copy(converge(focused, other)))

\* mutant of BRANCH_DECREMENT: the last use of a branch point is not consumed
BRANCH_DECREMENT_LastUseStays ==
  [t \in {"BRANCH4", "BRANCH3", "BRANCH2", "BRANCH1"} |->
     IF t = "BRANCH4" THEN "BRANCH3"
     ELSE IF t = "BRANCH3" THEN "BRANCH2"
     ELSE "BRANCH1"]

BRANCH_DECREMENT ==
  [t \in {"BRANCH4", "BRANCH3", "BRANCH2", "BRANCH1"} |->
     IF t = "BRANCH4" THEN "BRANCH3"
     ELSE IF t = "BRANCH3" THEN "BRANCH2"
     ELSE IF t = "BRANCH2" THEN "BRANCH1"
     ELSE "FLOOR"]

\* mutant of TryBranch: a session that is already branched branches again
TryBranch_IgnoresExisting ==
  /\ Running
  /\ last_op' = "try_branch"
  /\ LET active == get_active_branch
         terrain == TerrainGet(active, player(active).pos)
     IN  IF terrain \notin DOMAIN BRANCH_DECREMENT
         THEN /\ ret' = "False"
              /\ UNCHANGED session
         ELSE /\ main_branch' = [main_branch EXCEPT
                   !.terrain[player(active).pos] = BRANCH_DECREMENT[terrain]]
              /\ sub_branch' = diverge(main_branch')
              /\ has_branched' = TRUE
              /\ UNCHANGED <<current_focus, collapsed, victory>>
              /\ LogAndSave("V")
              /\ ret' = "True"
  /\ UNCHANGED <<win, source, rb, fn>>

\* mutant of TryBranch: the branch is copied before the cell is decremented
TryBranch_DecrementsAfterCopy ==
  /\ Running
  /\ last_op' = "try_branch"
  /\ LET active == get_active_branch
         terrain == TerrainGet(active, player(active).pos)
     IN  IF has_branched \/ terrain \notin DOMAIN BRANCH_DECREMENT
         THEN /\ ret' = "False"
              /\ UNCHANGED session
         ELSE /\ main_branch' = [main_branch EXCEPT
                   !.terrain[player(active).pos] = BRANCH_DECREMENT[terrain]]
              /\ sub_branch' = diverge(main_branch)
              /\ has_branched' = TRUE
              /\ UNCHANGED <<current_focus, collapsed, victory>>
              /\ LogAndSave("V")
              /\ ret' = "True"
  /\ UNCHANGED <<win, source, rb, fn>>

TryBranch ==
  /\ Running
  /\ last_op' = "try_branch"
  /\ LET active == get_active_branch
         terrain == TerrainGet(active, player(active).pos)
     IN  IF has_branched \/ terrain \notin DOMAIN BRANCH_DECREMENT
         THEN /\ ret' = "False"
              /\ UNCHANGED session
         ELSE /\ main_branch' = [main_branch EXCEPT
                   !.terrain[player(active).pos] = BRANCH_DECREMENT[terrain]]
              /\ sub_branch' = diverge(main_branch')
              /\ has_branched' = TRUE
              /\ UNCHANGED <<current_focus, collapsed, victory>>
              /\ LogAndSave("V")
              /\ ret' = "True"
  /\ UNCHANGED <<win, source, rb, fn>>

\* mutant of TryMerge: the focus is left where it was
TryMerge_KeepsFocus ==
  /\ Running
  /\ last_op' = "try_merge"
  /\ IF ~has_branched
     THEN /\ ret' = "False"
          /\ UNCHANGED session
     ELSE LET focused == IF current_focus = 0 THEN main_branch ELSE sub_branch
              other == IF current_focus = 0 THEN sub_branch ELSE main_branch
          IN  /\ main_branch' = settle_carried(converge(focused, other))
              /\ sub_branch' = NoBranch
              /\ has_branched' = FALSE
              /\ UNCHANGED <<current_focus, collapsed, victory>>
              /\ LogAndSave("C")
              /\ ret' = "True"
  /\ UNCHANGED <<win, source, rb, fn>>

TryMerge ==
  /\ Running
  /\ last_op' = "try_merge"
  /\ IF ~has_branched
     THEN /\ ret' = "False"
          /\ UNCHANGED session
     ELSE LET focused == IF current_focus = 0 THEN main_branch ELSE sub_branch
              other == IF current_focus = 0 THEN sub_branch ELSE main_branch
          IN  /\ main_branch' = settle_carried(converge(focused, other))
              /\ sub_branch' = NoBranch
              /\ has_branched' = FALSE
              /\ current_focus' = 0
              /\ UNCHANGED <<collapsed, victory>>
              /\ LogAndSave("C")
              /\ ret' = "True"
  /\ UNCHANGED <<win, source, rb, fn>>

SwitchFocus ==
  /\ Running
  /\ last_op' = "switch_focus"
  /\ IF ~has_branched
     THEN /\ ret' = "False"
          /\ UNCHANGED session
     ELSE /\ current_focus' = 1 - current_focus
          /\ UNCHANGED <<main_branch, sub_branch, has_branched, collapsed,
                         victory>>
          /\ LogAndSave("T")
          /\ ret' = "True"
  /\ UNCHANGED <<win, source, rb, fn>>

dir_key(direction) ==
  IF direction = <<0, -1>> THEN "U"
  ELSE IF direction = <<0, 1>> THEN "D"
  ELSE IF direction = <<-1, 0>> THEN "L"
  ELSE "R"

HandleMove(direction) ==
  /\ Running
  /\ last_op' = "handle_move"
  /\ LET active == get_active_branch
         target_pos == Add(player(active).pos, direction)
         has_box_ahead == has_box_at(active, target_pos)
         is_holding == get_held_items(active) # <<>>
         turned == [active EXCEPT !.entities[1].direction = direction]
         \* the branch when can_move is asked
         a1 == IF is_holding \/ has_box_ahead THEN active ELSE turned
         em == execute_move(a1, direction)
     IN  IF (is_holding \/ has_box_ahead) /\ player(active).direction # direction
         THEN /\ SetActive(turned)
              /\ UNCHANGED <<current_focus, has_branched, collapsed, victory>>
              /\ LogAndSave(dir_key(direction))
              /\ ret' = "True"
         ELSE IF can_move(a1, direction)
         THEN IF em.raised
              THEN /\ SetActive(em.state)
                   /\ UNCHANGED <<current_focus, has_branched, collapsed,
                                  victory, history, input_log>>
                   /\ ret' = "AttributeError"
              ELSE /\ SetActive(em.state)
                   /\ UNCHANGED <<current_focus, has_branched, collapsed,
                                  victory>>
                   /\ LogAndSave(dir_key(direction))
                   /\ ret' = "True"
         ELSE /\ SetActive(a1)
              /\ UNCHANGED <<current_focus, has_branched, collapsed, victory,
                             history, input_log>>
              /\ ret' = "False"
  /\ UNCHANGED <<win, source, rb, fn>>

\* handle_pickup on the current state; op is the entry point that was called
Pickup(op) ==
  /\ last_op' = op
  /\ LET r == try_pickup(get_active_branch)
     IN  /\ SetActive(r.state)
         /\ ret' = r.ret
         /\ UNCHANGED <<current_focus, has_branched, collapsed, victory>>
         /\ IF r.ret = "True" THEN LogAndSave("P")
            ELSE UNCHANGED <<history, input_log>>

\* handle_drop on the current state
Drop(op) ==
  /\ last_op' = op
  /\ LET r == try_drop(get_active_branch)
     IN  /\ SetActive(r.state)
         /\ ret' = r.ret
         /\ UNCHANGED <<current_focus, has_branched, collapsed, victory>>
         /\ IF r.ret = "True" THEN LogAndSave("O")
            ELSE UNCHANGED <<history, input_log>>

HandlePickup ==
  /\ Running
  /\ Pickup("handle_pickup")
  /\ UNCHANGED <<win, source, rb, fn>>

HandleDrop ==
  /\ Running
  /\ Drop("handle_drop")
  /\ UNCHANGED <<win, source, rb, fn>>

\* mutant of HandleAdaptiveAction: a faced box is picked up whether or not its
\* id is in shadow
HandleAdaptiveAction_AlwaysPicksUp ==
  /\ Running
  /\ LET active == get_active_branch
         front_pos == Add(player(active).pos, player(active).direction)
         t == find_box_at(active, front_pos)
     IN  IF get_held_items(active) # <<>>
         THEN Drop("handle_adaptive_action")
         ELSE IF t = 0
         THEN /\ last_op' = "handle_adaptive_action"
              /\ ret' = "False"
              /\ UNCHANGED session
         ELSE Pickup("handle_adaptive_action")
  /\ UNCHANGED <<win, source, rb, fn>>

HandleAdaptiveAction ==
  /\ Running
  /\ LET active == get_active_branch
         front_pos == Add(player(active).pos, player(active).direction)
         t == find_box_at(active, front_pos)
     IN  IF get_held_items(active) # <<>>
         THEN Drop("handle_adaptive_action")
         ELSE IF t = 0
         THEN /\ last_op' = "handle_adaptive_action"
              /\ ret' = "False"
              /\ UNCHANGED session
         ELSE IF is_shadow(active, active.entities[t].uid)
         THEN /\ last_op' = "handle_adaptive_action"
              /\ SetActive(converge_one(active, active.entities[t].uid,
                                        front_pos))
              /\ UNCHANGED <<current_focus, has_branched, collapsed, victory>>
              /\ LogAndSave("X")
              /\ ret' = "True"
         ELSE Pickup("handle_adaptive_action")
  /\ UNCHANGED <<win, source, rb, fn>>

\* a call of get_merge_preview by itself; rb is the branch it returns
GetMergePreview ==
  /\ ~Crashed
  /\ last_op' = "get_merge_preview"
  /\ rb' = get_merge_preview
  /\ ret' = "None"
  /\ UNCHANGED <<win, source, session, fn>>

\* mutant of CheckVictory: the preview of an unbranched session, which is the
\* main branch itself, is settled in place
CheckVictory_SettlesPreview ==
  /\ ~Crashed
  /\ last_op' = "check_victory"
  /\ IF has_branched
     THEN /\ ret' = "False"
          /\ UNCHANGED <<victory, main_branch>>
     ELSE LET preview == settle_carried(get_merge_preview)
              switches_ok == all_switches_activated(preview)
              goal_ok == TerrainGet(preview, player(preview).pos) = "GOAL"
          IN  /\ main_branch' = preview
              /\ victory' = (switches_ok /\ goal_ok)
              /\ ret' = IF victory' THEN "True" ELSE "False"
  /\ UNCHANGED <<win, source, sub_branch, current_focus, has_branched,
                 collapsed, history, input_log, rb, fn>>

CheckVictory ==
  /\ ~Crashed
  /\ last_op' = "check_victory"
  /\ IF has_branched
     THEN /\ ret' = "False"
          /\ UNCHANGED victory
     ELSE LET preview == get_merge_preview
              switches_ok == all_switches_activated(preview)
              goal_ok == TerrainGet(preview, player(preview).pos) = "GOAL"
          IN  /\ victory' = (switches_ok /\ goal_ok)
              /\ ret' = IF victory' THEN "True" ELSE "False"
  /\ UNCHANGED <<win, source, main_branch, sub_branch, current_focus, has_branched,
                 collapsed, history, input_log, rb, fn>>

(* ------ the handlers as functions of the session, for a replay -------- *)
\* the part of the session a replay is compared on
SessionOf(m, s, f, h) ==
  [main_branch |-> m, sub_branch |-> s, current_focus |-> f, has_branched |-> h]

\* what a fresh GameController(source) holds
FreshSession(src) == SessionOf(init_branch_from_source(src), NoBranch, 0, FALSE)

ReplayActive(S) == IF S.current_focus = 0 THEN S.main_branch ELSE S.sub_branch

ReplaySetActive(S, b) ==
  IF S.current_focus = 0 THEN [S EXCEPT !.main_branch = b]
  ELSE [S EXCEPT !.sub_branch = b]

ReplayMove(S, direction) ==
  LET active == ReplayActive(S)
      target_pos == Add(player(active).pos, direction)
      has_box_ahead == has_box_at(active, target_pos)
      is_holding == get_held_items(active) # <<>>
      turned == [active EXCEPT !.entities[1].direction = direction]
      a1 == IF is_holding \/ has_box_ahead THEN active ELSE turned
      em == execute_move(a1, direction)
  IN  IF (is_holding \/ has_box_ahead) /\ player(active).direction # direction
      THEN [s |-> ReplaySetActive(S, turned), ret |-> "True"]
      ELSE IF can_move(a1, direction)
      THEN [s |-> ReplaySetActive(S, em.state),
            ret |-> IF em.raised THEN "AttributeError" ELSE "True"]
      ELSE [s |-> ReplaySetActive(S, a1), ret |-> "False"]

ReplayPickup(S) ==
  LET r == try_pickup(ReplayActive(S))
  IN  [s |-> ReplaySetActive(S, r.state), ret |-> r.ret]

ReplayDrop(S) ==
  LET r == try_drop(ReplayActive(S))
  IN  [s |-> ReplaySetActive(S, r.state), ret |-> r.ret]

ReplayAdaptive(S) ==
  LET active == ReplayActive(S)
      front_pos == Add(player(active).pos, player(active).direction)
      t == find_box_at(active, front_pos)
  IN  IF get_held_items(active) # <<>> THEN ReplayDrop(S)
      ELSE IF t = 0 THEN [s |-> S, ret |-> "False"]
      ELSE IF is_shadow(active, active.entities[t].uid)
      THEN [s |-> ReplaySetActive(S, converge_one(active, active.entities[t].uid,
                                                  front_pos)),
            ret |-> "True"]
      ELSE ReplayPickup(S)

ReplayBranch(S) ==
  LET active == ReplayActive(S)
      terrain == TerrainGet(active, player(active).pos)
      m == [S.main_branch EXCEPT
              !.terrain[player(active).pos] = BRANCH_DECREMENT[terrain]]
  IN  IF S.has_branched \/ terrain \notin DOMAIN BRANCH_DECREMENT
      THEN [s |-> S, ret |-> "False"]
      ELSE [s |-> SessionOf(m, diverge(m), S.current_focus, TRUE),
            ret |-> "True"]

ReplayMerge(S) ==
  LET focused == ReplayActive(S)
      other == IF S.current_focus = 0 THEN S.sub_branch ELSE S.main_branch
  IN  IF ~S.has_branched THEN [s |-> S, ret |-> "False"]
      ELSE [s |-> SessionOf(settle_carried(converge(focused, other)),
                            NoBranch, 0, FALSE),
            ret |-> "True"]

ReplaySwitch(S) ==
  IF ~S.has_branched THEN [s |-> S, ret |-> "False"]
  ELSE [s |-> [S EXCEPT !.current_focus = 1 - S.current_focus], ret |-> "True"]

\* the handler that logs the key
ReplayKey(S, key) ==
  IF key = "U" THEN ReplayMove(S, <<0, -1>>)
  ELSE IF key = "D" THEN ReplayMove(S, <<0, 1>>)
  ELSE IF key = "L" THEN ReplayMove(S, <<-1, 0>>)
  ELSE IF key = "R" THEN ReplayMove(S, <<1, 0>>)
  ELSE IF key = "V" THEN ReplayBranch(S)
  ELSE IF key = "C" THEN ReplayMerge(S)
  ELSE IF key = "T" THEN ReplaySwitch(S)
  ELSE IF key = "P" THEN ReplayPickup(S)
  ELSE IF key = "O" THEN ReplayDrop(S)
  ELSE ReplayAdaptive(S)

\* the logged keys fed in order to the session; an exception ends the replay
RECURSIVE Replay(_, _)
Replay(S, log) ==
  IF log = <<>> THEN S
  ELSE LET r == ReplayKey(S, Head(log))
       IN  IF r.ret = "AttributeError" THEN r.s ELSE Replay(r.s, Tail(log))

(* ------------------- Spec: the controller from reset ------------------ *)
Init ==
  /\ source \in Levels
  /\ main_branch = init_branch_from_source(source)
  /\ sub_branch = NoBranch
  /\ current_focus = 0
  /\ has_branched = FALSE
  /\ collapsed = FALSE
  /\ victory = FALSE
  /\ input_log = <<>>
  /\ history = <<GameSnapshot(main_branch, NoBranch, 0, FALSE)>>
  /\ last_op = "reset"
  /\ ret = "None"
  /\ rb = NoBranch
  /\ fn = <<>>
  /\ win = NoWin

Next ==
  \/ Reset
  \/ Undo
  \/ UpdatePhysics
  \/ TryBranch
  \/ TryMerge
  \/ SwitchFocus
  \/ \E direction \in Directions : HandleMove(direction)
  \/ HandlePickup
  \/ HandleDrop
  \/ HandleAdaptiveAction
  \/ CheckVictory

Spec == Init /\ [][Next]_vars

(* ------- SpecFn: the functions on a bounded set of BranchStates ------- *)
\* the two boxes of test_merge_logic.py
B1 == 1
B2 == 2

\* cells used by the drawn branches, on Terrain1: the player stands on the
\* branch point or on the goal; a box lies right of either, or in the hole
FnPlayerCells == {<<0, 1>>, <<0, 2>>}
FnCell1 == <<1, 1>>
FnCell2 == <<1, 2>>
FnHole == <<2, 1>>

\* where a box is in a drawn branch: N no instance, H held by the player,
\* G1/G2 on the ground, B buried in the hole, S in shadow on both cells
BoxOpts == {"N", "H", "G1", "G2", "B", "S"}

HeldBox(uid, ppos) ==
  [Entity(uid, "box", ppos) EXCEPT !.holder = 0, !.z = 1, !.collision = 0]

BoxInstances(uid, opt, ppos) ==
  IF opt = "H" THEN <<HeldBox(uid, ppos)>>
  ELSE IF opt = "G1" THEN <<Entity(uid, "box", FnCell1)>>
  ELSE IF opt = "G2" THEN <<Entity(uid, "box", FnCell2)>>
  ELSE IF opt = "B" THEN <<[Entity(uid, "box", FnHole) EXCEPT !.z = -1]>>
  ELSE IF opt = "S" THEN <<Entity(uid, "box", FnCell1),
                           Entity(uid, "box", FnCell2)>>
  ELSE <<>>

OptCells(opt) ==
  IF opt = "G1" THEN {FnCell1}
  ELSE IF opt = "G2" THEN {FnCell2}
  ELSE IF opt = "S" THEN {FnCell1, FnCell2}
  ELSE IF opt = "B" THEN {FnHole}
  ELSE {}

\* one box in the hand; one box per cell, or both boxes on the ground of one
\* cell (a merge can drop a box on a cell that holds one)
CompatibleOpts(o1, o2) ==
  /\ \/ OptCells(o1) \cap OptCells(o2) = {}
     \/ (o1 = o2 /\ o1 \in {"G1", "G2"})
  /\ ~(o1 = "H" /\ o2 = "H")

FnBranch(ppos, o1, o2) ==
  [entities |-> <<[Entity(0, "player", ppos) EXCEPT !.direction = <<1, 0>>]>>
                \o BoxInstances(B1, o1, ppos) \o BoxInstances(B2, o2, ppos),
   terrain |-> Terrain1,
   grid_size |-> GridSize]

FnBranches ==
  {FnBranch(ppos, o[1], o[2]) :
     ppos \in FnPlayerCells,
     o \in {x \in BoxOpts \X BoxOpts : CompatibleOpts(x[1], x[2])}}

\* the branch under control and the other one of the session
Focused == IF current_focus = 0 THEN main_branch ELSE sub_branch
Other == IF current_focus = 0 THEN sub_branch ELSE main_branch

InitFn ==
  /\ source \in {s \in Levels : s.terrain = Terrain1}
  /\ main_branch \in FnBranches
  /\ has_branched \in BOOLEAN
  /\ IF has_branched
     THEN sub_branch \in FnBranches /\ current_focus \in {0, 1}
     ELSE sub_branch = NoBranch /\ current_focus = 0
  /\ collapsed = FALSE
  /\ victory = FALSE
  /\ input_log = <<>>
  /\ history = <<GameSnapshot(main_branch, sub_branch, current_focus,
                              has_branched)>>
  /\ last_op = "init"
  /\ ret = "None"
  /\ rb = NoBranch
  /\ fn = <<>>
  /\ win = NoWin

\* Timeline.diverge of an unbranched session's branch; either may take focus
FnDiverge ==
  /\ fn = <<>> /\ ~has_branched /\ last_op = "init"
  /\ sub_branch' = diverge(main_branch)
  /\ has_branched' = TRUE
  /\ current_focus' \in {0, 1}
  /\ fn' = <<"diverge">>
  /\ UNCHANGED <<win, source, main_branch, collapsed, victory, history, input_log,
                 last_op, ret, rb>>

\* diverge, then a push in sub only: can_move accepts and execute_move runs
\* (what it did to the branch before it raised is what sub holds afterwards)
FnDivergePush(direction) ==
  /\ fn = <<>> /\ ~has_branched /\ last_op = "init"
  /\ LET sub == diverge(main_branch)
     IN  /\ can_move(sub, direction)
         /\ EntitiesAtNew(sub, Add(player(sub).pos, direction)) # {}
         /\ sub_branch' = execute_move(sub, direction).state
  /\ has_branched' = TRUE
  /\ current_focus' = 0
  /\ fn' = <<"diverge", "push">>
  /\ UNCHANGED <<win, source, main_branch, collapsed, victory, history, input_log,
                 last_op, ret, rb>>

\* Timeline.converge(focused, other)
FnConverge ==
  /\ has_branched /\ rb = NoBranch /\ last_op = "init"
  /\ rb' = converge(Focused, Other)
  /\ fn' = Append(fn, "converge")
  /\ UNCHANGED <<win, source, session, last_op, ret>>

\* Timeline.converge followed by Timeline.settle_carried (the normal merge)
FnMerge ==
  /\ has_branched /\ rb = NoBranch /\ fn = <<>> /\ last_op = "init"
  /\ rb' = settle_carried(converge(Focused, Other))
  /\ fn' = <<"merge">>
  /\ UNCHANGED <<win, source, session, last_op, ret>>

\* test_merge_logic.py lines 198-201: every instance of every uid in
\* items_to_inherit becomes held
MarkInherited(merged, items_to_inherit) ==
  [merged EXCEPT !.entities =
     [i \in 1..Len(merged.entities) |->
        IF merged.entities[i].uid \in items_to_inherit
        THEN [merged.entities[i] EXCEPT !.holder = 0]
        ELSE merged.entities[i]]]

\* the inherit-merge as test_merge_logic.py performs it
InheritMerge(focused, other) ==
  LET items_to_inherit == Range(get_held_items(focused))
                          \cup Range(get_held_items(other))
  IN  settle_carried(MarkInherited(converge(focused, other), items_to_inherit))

FnInherit ==
  /\ has_branched /\ rb = NoBranch /\ fn = <<>> /\ last_op = "init"
  /\ rb' = InheritMerge(Focused, Other)
  /\ fn' = <<"inherit">>
  /\ UNCHANGED <<win, source, session, last_op, ret>>

NextFn ==
  \/ FnDiverge
  \/ \E direction \in Directions : FnDivergePush(direction)
  \/ FnConverge
  \/ FnMerge
  \/ FnInherit
  \/ (fn = <<>> /\ last_op = "init" /\ CheckVictory)
  \/ (fn = <<>> /\ last_op = "init" /\ GetMergePreview)

SpecFn == InitFn /\ [][NextFn]_vars

(* ------ SpecPhys: the physics pass on a bounded set of BranchStates ---- *)
\*    H . H
\*    . S G
\*    # . .
TerrainPhys ==
  [p \in Pos |->
     IF p = <<0, 0>> THEN "HOLE"
     ELSE IF p = <<2, 0>> THEN "HOLE"
     ELSE IF p = <<1, 1>> THEN "SWITCH"
     ELSE IF p = <<2, 1>> THEN "GOAL"
     ELSE IF p = <<0, 2>> THEN "WALL"
     ELSE "FLOOR"]

\* the player stands on either hole, between them, or on the goal
PhysPlayerCells == {<<0, 0>>, <<2, 0>>, <<1, 0>>, <<2, 1>>}
PhysHoles == {<<0, 0>>, <<2, 0>>}
PhysBoxCells == PhysHoles \cup {<<1, 1>>}

\* where a box is in a drawn branch: on the Ground layer of a cell, Buried in
\* a hole, or Held by the player
PhysOpts ==
  ({"G"} \X PhysBoxCells) \cup ({"B"} \X PhysHoles) \cup {<<"H", NoPos>>}

PhysBox(uid, opt, ppos) ==
  IF opt[1] = "H" THEN HeldBox(uid, ppos)
  ELSE IF opt[1] = "B" THEN [Entity(uid, "box", opt[2]) EXCEPT !.z = -1]
  ELSE Entity(uid, "box", opt[2])

\* one box in the hand; two boxes may share a cell (a merge can drop a box
\* on a cell that holds one)
PhysBranches ==
  {[entities |-> <<Entity(0, "player", ppos), PhysBox(B1, o[1], ppos),
                   PhysBox(B2, o[2], ppos)>>,
    terrain |-> TerrainPhys,
    grid_size |-> GridSize] :
     ppos \in PhysPlayerCells,
     o \in {x \in PhysOpts \X PhysOpts : ~(x[1][1] = "H" /\ x[2][1] = "H")}}

InitPhys ==
  /\ main_branch \in PhysBranches
  /\ source = [grid_size |-> GridSize, terrain |-> TerrainPhys,
               entity_definitions |->
                 [i \in 1..Len(main_branch.entities) |->
                    <<main_branch.entities[i].type,
                      main_branch.entities[i].pos>>]]
  /\ sub_branch = NoBranch
  /\ current_focus = 0
  /\ has_branched = FALSE
  /\ collapsed = FALSE
  /\ victory = FALSE
  /\ input_log = <<>>
  /\ history = <<GameSnapshot(main_branch, NoBranch, 0, FALSE)>>
  /\ last_op = "init"
  /\ ret = "None"
  /\ rb = NoBranch
  /\ fn = <<>>
  /\ win = NoWin

\* the frame loop of game_main.py: update_physics, then check_victory
NextPhys ==
  \/ UpdatePhysics
  \/ CheckVictory

SpecPhys == InitPhys /\ [][NextPhys]_vars

(* ------ move and pickup rules on drawn branches: the third spec ------ *)
\* a floor with two holes: one on the cell faced from (0,2), one aside
\*    . . H
\*    . . .
\*    . H .
TerrainAct ==
  [p \in Pos |->
     IF p = <<1, 2>> THEN "HOLE"
     ELSE IF p = <<2, 0>> THEN "HOLE"
     ELSE "FLOOR"]

\* the player faces right, towards (1,1) or towards the hole cell (1,2)
ActPlayerCells == {<<0, 1>>, <<0, 2>>}
ActFloorCell == <<1, 1>>
ActHoleCell == <<1, 2>>
ActFarHole == <<2, 0>>

\* where a box is in a drawn branch: N no instance, F on the floor cell,
\* O on the Ground layer over the open hole cell (not settled yet), B buried
\* in the far hole, BF in shadow (buried in the far hole, then on the floor
\* cell), FO in shadow (on the floor cell, then over the open hole cell)
ActOpts == {"N", "F", "O", "B", "BF", "FO"}

ActInstances(uid, opt) ==
  IF opt = "F" THEN <<Entity(uid, "box", ActFloorCell)>>
  ELSE IF opt = "O" THEN <<Entity(uid, "box", ActHoleCell)>>
  ELSE IF opt = "B" THEN <<[Entity(uid, "box", ActFarHole) EXCEPT !.z = -1]>>
  ELSE IF opt = "BF" THEN <<[Entity(uid, "box", ActFarHole) EXCEPT !.z = -1],
                            Entity(uid, "box", ActFloorCell)>>
  ELSE IF opt = "FO" THEN <<Entity(uid, "box", ActFloorCell),
                            Entity(uid, "box", ActHoleCell)>>
  ELSE <<>>

ActCells(opt) ==
  IF opt = "F" THEN {ActFloorCell}
  ELSE IF opt = "O" THEN {ActHoleCell}
  ELSE IF opt = "B" THEN {ActFarHole}
  ELSE IF opt = "BF" THEN {ActFarHole, ActFloorCell}
  ELSE IF opt = "FO" THEN {ActFloorCell, ActHoleCell}
  ELSE {}

\* one box per cell
ActBranches ==
  {[entities |-> <<[Entity(0, "player", ppos) EXCEPT !.direction = <<1, 0>>]>>
                 \o ActInstances(B1, o[1]) \o ActInstances(B2, o[2]),
    terrain |-> TerrainAct,
    grid_size |-> GridSize] :
     ppos \in ActPlayerCells,
     o \in {x \in ActOpts \X ActOpts : ActCells(x[1]) \cap ActCells(x[2]) = {}}}

InitAct ==
  /\ main_branch \in ActBranches
  /\ source = [grid_size |-> GridSize, terrain |-> TerrainAct,
               entity_definitions |->
                 [i \in 1..Len(main_branch.entities) |->
                    <<main_branch.entities[i].type,
                      main_branch.entities[i].pos>>]]
  /\ sub_branch = NoBranch
  /\ current_focus = 0
  /\ has_branched = FALSE
  /\ collapsed = FALSE
  /\ victory = FALSE
  /\ input_log = <<>>
  /\ history = <<GameSnapshot(main_branch, NoBranch, 0, FALSE)>>
  /\ last_op = "init"
  /\ ret = "None"
  /\ rb = NoBranch
  /\ fn = <<>>
  /\ win = NoWin

\* the intents that go to GameLogic
NextAct ==
  \/ \E direction \in Directions : HandleMove(direction)
  \/ HandlePickup
  \/ HandleAdaptiveAction

SpecAct == InitAct /\ [][NextAct]_vars

(* ------- the main loops that drive the controller: the fifth spec ----- *)
\* the controller as a value, to which the statements of one handler of the
\* loop are applied in turn; raised: a statement has raised, the rest of the
\* handler is not executed
Ctl ==
  [s |-> SessionOf(main_branch, sub_branch, current_focus, has_branched),
   collapsed |-> collapsed, victory |-> victory,
   history |-> history, input_log |-> input_log,
   raised |-> FALSE,
   unsettled |-> win.unsettled, overlap |-> FALSE]

\* get_active_branch() returns None: sub_branch is None and current_focus is 1
NoActive(X) == ReplayActive(X.s) = NoBranch

\* a handler that returned r: on True it has logged key and saved a snapshot
CtlIntent(X, r, key) ==
  IF r.ret = "AttributeError" THEN [X EXCEPT !.s = r.s, !.raised = TRUE]
  ELSE IF r.ret = "True"
  THEN [X EXCEPT !.s = r.s,
                 !.input_log = Append(@, key),
                 !.history = Append(@, GameSnapshot(r.s.main_branch,
                                                    r.s.sub_branch,
                                                    r.s.current_focus,
                                                    r.s.has_branched)),
                 !.overlap = @ \/ X.unsettled,
                 !.unsettled = TRUE]
  ELSE [X EXCEPT !.s = r.s]

\* controller.handle_move(direction); active.player raises on None
CtlMove(X, direction) ==
  IF X.raised THEN X
  ELSE IF NoActive(X) THEN [X EXCEPT !.raised = TRUE]
  ELSE CtlIntent(X, ReplayMove(X.s, direction), dir_key(direction))

\* the key handle_adaptive_action logs: 'O' by handle_drop, 'X' for a
\* converge, 'P' by handle_pickup
AdaptiveKey(S) ==
  LET active == ReplayActive(S)
      front_pos == Add(player(active).pos, player(active).direction)
      t == find_box_at(active, front_pos)
  IN  IF get_held_items(active) # <<>> THEN "O"
      ELSE IF t # 0 /\ is_shadow(active, active.entities[t].uid) THEN "X"
      ELSE "P"

\* controller.handle_adaptive_action(); active.get_held_items raises on None
CtlAdaptive(X) ==
  IF X.raised THEN X
  ELSE IF NoActive(X) THEN [X EXCEPT !.raised = TRUE]
  ELSE CtlIntent(X, ReplayAdaptive(X.s), AdaptiveKey(X.s))

\* controller.try_branch(); active.terrain raises on None
CtlBranch(X) ==
  IF X.raised THEN X
  ELSE IF ~X.s.has_branched /\ NoActive(X) THEN [X EXCEPT !.raised = TRUE]
  ELSE CtlIntent(X, ReplayBranch(X.s), "V")

\* controller.try_merge()
CtlMerge(X) ==
  IF X.raised THEN X ELSE CtlIntent(X, ReplayMerge(X.s), "C")

\* controller.switch_focus(); it changes no branch, so it leaves nothing to
\* settle
CtlSwitch(X) ==
  IF X.raised THEN X
  ELSE [CtlIntent(X, ReplaySwitch(X.s), "T") EXCEPT !.unsettled = X.unsettled,
                                                    !.overlap = X.overlap]

\* controller.reset()
CtlReset(X) ==
  [X EXCEPT !.s = FreshSession(source),
            !.collapsed = FALSE,
            !.victory = FALSE,
            !.history = <<GameSnapshot(init_branch_from_source(source),
                                       NoBranch, 0, FALSE)>>,
            !.input_log = <<>>,
            !.unsettled = FALSE]

\* controller.undo()
CtlUndo(X) ==
  IF Len(X.history) <= 1 THEN X
  ELSE LET h == SubSeq(X.history, 1, Len(X.history) - 1)
           snapshot == h[Len(h)]
       IN  [X EXCEPT !.history = h,
                     !.input_log = IF @ # <<>> THEN SubSeq(@, 1, Len(@) - 1)
                                   ELSE @,
                     !.s = SessionOf(Copy(snapshot.main_branch),
                                     IF snapshot.sub_branch # NoBranch
                                     THEN Copy(snapshot.sub_branch)
                                     ELSE NoBranch,
                                     snapshot.current_focus,
                                     snapshot.has_branched),
                     !.collapsed = FALSE,
                     !.victory = FALSE,
                     !.unsettled = FALSE]

\* controller.update_physics(); Physics.step(None) raises
CtlPhysics(X) ==
  IF X.raised THEN X
  ELSE IF NoActive(X) THEN [X EXCEPT !.raised = TRUE]
  ELSE LET r == step(ReplayActive(X.s))
       IN  [X EXCEPT !.s = ReplaySetActive(X.s, r.state),
                     !.collapsed = IF r.result = "FALL" THEN TRUE ELSE @,
                     !.unsettled = FALSE]

\* controller.check_victory()
CtlVictory(X) ==
  IF X.raised \/ X.s.has_branched THEN X
  ELSE LET preview == X.s.main_branch
           switches_ok == all_switches_activated(preview)
           goal_ok == TerrainGet(preview, player(preview).pos) = "GOAL"
       IN  [X EXCEPT !.victory = (switches_ok /\ goal_ok)]

\* the end of a frame in both loops: continuous movement, the unified physics
\* check, the victory check; direction is NoPos when no movement key is held
\* or the move cooldown has not run out
FrameTail(X, direction) ==
  LET X2 == IF ~X.collapsed /\ ~X.victory /\ direction # NoPos
            THEN CtlMove(X, direction) ELSE X
      X3 == IF ~X2.collapsed /\ ~X2.victory THEN CtlPhysics(X2) ELSE X2
  IN  IF ~X3.victory THEN CtlVictory(X3) ELSE X3

\* the controller and the window after a handler: X and w; op names the
\* handler. Histories stay within the bound.
LoopStep(X, w, op) ==
  /\ Len(X.history) <= MaxLoopHist
  /\ main_branch' = X.s.main_branch
  /\ sub_branch' = X.s.sub_branch
  /\ current_focus' = X.s.current_focus
  /\ has_branched' = X.s.has_branched
  /\ collapsed' = X.collapsed
  /\ victory' = X.victory
  /\ history' = X.history
  /\ input_log' = X.input_log
  /\ win' = [w EXCEPT !.unsettled = X.unsettled, !.overlap = X.overlap]
  /\ last_op' = op
  /\ ret' = IF X.raised THEN "AttributeError" ELSE "None"
  /\ UNCHANGED <<source, rb, fn>>

Keys == {"R", "Z", "V", "C", "TAB", "X", "M", "ESC"}

\* what the key handler did with the key: reset, undo, or the rest
KeyOp(key) ==
  IF key = "R" THEN "key_reset"
  ELSE IF key = "Z" THEN "key_undo"
  ELSE "key"

\* mutant of PygameKeyDown: the keys are not blocked by collapsed or victory
PygameKeyDown_NotBlocked(key) ==
  /\ win.loop = "pygame"
  /\ ~Crashed
  /\ key \in {"R", "Z", "V", "C", "TAB", "X"}
  /\ IF key = "R" THEN LoopStep(CtlReset(Ctl), win, KeyOp(key))
     ELSE IF key = "Z" THEN LoopStep(CtlUndo(Ctl), win, KeyOp(key))
     ELSE IF key = "V"
     THEN IF ~has_branched THEN LoopStep(CtlBranch(Ctl), win, KeyOp(key))
          ELSE LoopStep(Ctl, [win EXCEPT !.v_press = TRUE], KeyOp(key))
     ELSE IF key = "C" THEN LoopStep(CtlMerge(Ctl), win, KeyOp(key))
     ELSE IF key = "TAB" THEN LoopStep(CtlSwitch(Ctl), win, KeyOp(key))
     ELSE LoopStep(CtlAdaptive(Ctl), win, KeyOp(key))

\* one KEYDOWN event of the event loop of run_game (game_main.py 52-74)
PygameKeyDown(key) ==
  /\ win.loop = "pygame"
  /\ ~Crashed
  /\ key \in {"R", "Z", "V", "C", "TAB", "X"}
  /\ IF key = "R" THEN LoopStep(CtlReset(Ctl), win, KeyOp(key))
     ELSE IF key = "Z" THEN LoopStep(CtlUndo(Ctl), win, KeyOp(key))
     ELSE IF collapsed \/ victory THEN LoopStep(Ctl, win, KeyOp(key))
     ELSE IF key = "V"
     THEN IF ~has_branched THEN LoopStep(CtlBranch(Ctl), win, KeyOp(key))
          ELSE LoopStep(Ctl, [win EXCEPT !.v_press = TRUE], KeyOp(key))
     ELSE IF key = "C" THEN LoopStep(CtlMerge(Ctl), win, KeyOp(key))
     ELSE IF key = "TAB" THEN LoopStep(CtlSwitch(Ctl), win, KeyOp(key))
     ELSE LoopStep(CtlAdaptive(Ctl), win, KeyOp(key))

\* the KEYUP event of V (game_main.py 76-78); without a press pending it
\* changes nothing
PygameKeyUpV ==
  /\ win.loop = "pygame"
  /\ ~Crashed
  /\ win.v_press
  /\ LoopStep(Ctl, [win EXCEPT !.v_press = FALSE], "keyup_V")

\* the rest of one pass of the loop of run_game (game_main.py 80-110): the
\* V-hold merge, continuous movement, physics, victory. hold: the V key has
\* been held for V_HOLD_THRESHOLD
PygameFrame(direction, hold) ==
  /\ win.loop = "pygame"
  /\ ~Crashed
  /\ hold => win.v_press
  /\ LET merge == /\ win.v_press /\ has_branched
                  /\ ~collapsed /\ ~victory /\ hold
         X1 == IF merge THEN CtlMerge(Ctl) ELSE Ctl
         w1 == IF merge THEN [win EXCEPT !.v_press = FALSE] ELSE win
     IN  LoopStep(FrameTail(X1, direction), w1, "frame")

\* on_key_press of the Arcade window for the keys that are not movement keys
\* (game_main_arc.py 131-212)
ArcadeKeyPress(key) ==
  /\ win.loop = "arcade"
  /\ ~Crashed
  /\ key \in Keys
  /\ IF key = "R"
     THEN LoopStep(CtlReset(Ctl),
                   [win EXCEPT !.slide_direction = 0,
                               !.merge_preview_active = FALSE], KeyOp(key))
     ELSE IF key = "Z" THEN LoopStep(CtlUndo(Ctl), win, KeyOp(key))
     ELSE IF collapsed \/ victory THEN LoopStep(Ctl, win, KeyOp(key))
     ELSE IF key = "V"
     THEN IF ~has_branched
          THEN LoopStep(CtlBranch(Ctl),
                        [win EXCEPT !.merge_preview_active = FALSE], KeyOp(key))
          ELSE LoopStep(Ctl, win, KeyOp(key))
     ELSE IF key = "M"
     THEN IF has_branched
          THEN LoopStep(Ctl, [win EXCEPT !.merge_preview_active = ~@],
                        KeyOp(key))
          ELSE LoopStep(Ctl, win, KeyOp(key))
     ELSE IF key = "ESC"
     THEN LoopStep(Ctl, [win EXCEPT !.merge_preview_active = FALSE], KeyOp(key))
     ELSE IF key = "C"
     THEN IF has_branched
          THEN LoopStep(CtlMerge(Ctl),
                        IF win.merge_preview_active
                        THEN [win EXCEPT !.merge_animation = TRUE] ELSE win,
                        KeyOp(key))
          ELSE LoopStep(Ctl, win, KeyOp(key))
     ELSE IF key = "TAB"
     THEN IF has_branched
          THEN IF win.merge_preview_active
               THEN LoopStep(Ctl, [win EXCEPT !.swap = TRUE], KeyOp(key))
               ELSE IF win.slide_direction = 0
               THEN LoopStep(Ctl,
                             [win EXCEPT !.slide_direction =
                                IF current_focus = 0 THEN 1 ELSE -1],
                             KeyOp(key))
               ELSE LoopStep(Ctl, win, KeyOp(key))
          ELSE LoopStep(Ctl, win, KeyOp(key))
     ELSE LoopStep(CtlAdaptive(Ctl), win, KeyOp(key))

\* the timers of the Arcade window that are running
Timers ==
  (IF win.slide_direction # 0 THEN {"slide"} ELSE {})
  \cup (IF win.swap THEN {"swap"} ELSE {})
  \cup (IF win.merge_animation THEN {"merge"} ELSE {})

\* on_update of the Arcade window (game_main_arc.py 61-116); done: the
\* running timers whose duration has elapsed
ArcadeUpdate(direction, done) ==
  /\ win.loop = "arcade"
  /\ ~Crashed
  /\ done \subseteq Timers
  /\ LET f1 == IF "slide" \in done
               THEN (IF win.slide_direction = 1 THEN 1 ELSE 0)
               ELSE current_focus
         f2 == IF "swap" \in done THEN 1 - f1 ELSE f1
         w1 == [win EXCEPT
                  !.slide_direction = IF "slide" \in done THEN 0 ELSE @,
                  !.swap = IF "swap" \in done THEN FALSE ELSE @,
                  !.merge_preview_active = IF "merge" \in done THEN FALSE ELSE @,
                  !.merge_animation = IF "merge" \in done THEN FALSE ELSE @]
         X1 == [Ctl EXCEPT !.s.current_focus = f2]
     IN  LoopStep(FrameTail(X1, IF w1.slide_direction = 0 THEN direction
                                ELSE NoPos),
                  w1, "frame")

\* the levels the loops are run on: a branch point under the player (1, 4),
\* a player who falls (3), a player who has won (5)
LoopLevels ==
  {l \in Levels : l.terrain \in {Terrain1, Terrain3, Terrain4, Terrain5}}

InitLoop ==
  /\ source \in LoopLevels
  /\ main_branch = init_branch_from_source(source)
  /\ sub_branch = NoBranch
  /\ current_focus = 0
  /\ has_branched = FALSE
  /\ collapsed = FALSE
  /\ victory = FALSE
  /\ input_log = <<>>
  /\ history = <<GameSnapshot(main_branch, NoBranch, 0, FALSE)>>
  /\ last_op = "reset"
  /\ ret = "None"
  /\ rb = NoBranch
  /\ fn = <<>>
  /\ win \in {WinOf("pygame"), WinOf("arcade")}

NextLoop ==
  \/ \E key \in Keys : PygameKeyDown(key)
  \/ PygameKeyUpV
  \/ \E direction \in Directions \cup {NoPos}, hold \in BOOLEAN :
       PygameFrame(direction, hold)
  \/ \E key \in Keys : ArcadeKeyPress(key)
  \/ \E direction \in Directions \cup {NoPos}, done \in SUBSET Timers :
       ArcadeUpdate(direction, done)

SpecLoop == InitLoop /\ [][NextLoop]_vars

(* ------ Timeline.converge_one on drawn branches: the sixth spec ------- *)
\* the branches converge_one is given: the drawn branches, and the merges of
\* two of them (where a box can have a held instance next to others)
OneBranches ==
  FnBranches \cup {converge(f, o) : f \in FnBranches, o \in FnBranches}

\* the arguments of the call, as the tags kept in fn
OneUids == {0, B1, B2}
OnePositions == {NoPos, FnCell1, FnCell2, FnHole}

UidTag(uid) == IF uid = 0 THEN "uid0" ELSE IF uid = B1 THEN "uid1" ELSE "uid2"

PosTag(pos) ==
  IF pos = NoPos THEN "None"
  ELSE IF pos = FnCell1 THEN "cell1"
  ELSE IF pos = FnCell2 THEN "cell2"
  ELSE "hole"

InitOne ==
  /\ source \in {s \in Levels : s.terrain = Terrain1}
  /\ main_branch \in OneBranches
  /\ sub_branch = NoBranch
  /\ current_focus = 0
  /\ has_branched = FALSE
  /\ collapsed = FALSE
  /\ victory = FALSE
  /\ input_log = <<>>
  /\ history = <<GameSnapshot(main_branch, NoBranch, 0, FALSE)>>
  /\ last_op = "init"
  /\ ret = "None"
  /\ rb = NoBranch
  /\ fn = <<>>
  /\ win = NoWin

\* Timeline.converge_one(state, target_uid, target_pos) on a copy of the main
\* branch; rb is the state afterwards
FnConvergeOne(target_uid, target_pos) ==
  /\ fn = <<>>
  /\ rb' = converge_one(main_branch, target_uid, target_pos)
  /\ fn' = <<"converge_one", UidTag(target_uid), PosTag(target_pos)>>
  /\ UNCHANGED <<win, source, session, last_op, ret>>

NextOne ==
  \E target_uid \in OneUids, target_pos \in OnePositions :
     FnConvergeOne(target_uid, target_pos)

SpecOne == InitOne /\ [][NextOne]_vars

(* ============================ properties ============================== *)
InstancesOf(b, uid) == {i \in 1..Len(b.entities) : b.entities[i].uid = uid}

HeldSet(b) == Range(get_held_items(b))

BoxUids(b) == {b.entities[i].uid : i \in 1..Len(b.entities)} \ {0}

\* some instance of uid lies dropped at pos: Ground layer, nobody holds it
DroppedAt(b, uid, pos) ==
  \E i \in InstancesOf(b, uid) :
     /\ b.entities[i].pos = pos
     /\ b.entities[i].z = 0
     /\ b.entities[i].holder = None

\* C1: a normal merge (converge then settle_carried) of an empty-handed
\* focused player with another branch whose player holds box B yields a
\* branch whose player holds nothing, with B on the Ground layer, holder
\* None, at the other branch's player position.
C1_NormalMergeDropsOtherBox ==
  (fn = <<"merge">> /\ HeldSet(Focused) = {} /\ HeldSet(Other) # {})
    => /\ get_held_items(rb) = <<>>
       /\ \A B \in HeldSet(Other) : DroppedAt(rb, B, player(Other).pos)

\* C2: focused holds A, the other player holds a different B: after converge
\* and settle_carried the only held id is A, no instance of B is held and an
\* instance of B is on the Ground layer with collision 1 at the other
\* branch's player position.
C2_HoldConflictDropsOther ==
  \A A \in {B1, B2}, B \in {B1, B2} :
    (fn = <<"merge">> /\ A # B /\ HeldSet(Focused) = {A} /\ HeldSet(Other) = {B})
      => /\ get_held_items(rb) = <<A>>
         /\ \A i \in InstancesOf(rb, B) : rb.entities[i].holder # 0
         /\ \E i \in InstancesOf(rb, B) :
               /\ rb.entities[i].pos = player(Other).pos
               /\ rb.entities[i].z = 0
               /\ rb.entities[i].collision = 1
               /\ rb.entities[i].holder = None

C2_Witness ==
  /\ fn = <<"merge">>
  /\ HeldSet(Focused) = {B1} /\ HeldSet(Other) = {B2}
  /\ player(Focused).pos # player(Other).pos
  /\ get_held_items(rb) = <<B1>>

\* C3: a box A held by the focused player survives converge and
\* settle_carried as exactly one instance, held by the player (layer Held,
\* collision 0) at the focused player's position, whatever the other branch
\* holds or contains; no instance of A is left un-held.
C3_FocusedHoldSurvives ==
  \A A \in HeldSet(Focused) :
    fn = <<"merge">>
      => /\ Cardinality(InstancesOf(rb, A)) = 1
         /\ \A i \in InstancesOf(rb, A) :
               /\ rb.entities[i].holder = 0
               /\ rb.entities[i].z = 1
               /\ rb.entities[i].collision = 0
               /\ rb.entities[i].pos = player(Focused).pos

\* focused holds B1 while the other branch has a non-held copy of it elsewhere
C3_Witness ==
  /\ fn = <<"merge">>
  /\ HeldSet(Focused) = {B1}
  /\ \E i \in InstancesOf(Other, B1) :
        Other.entities[i].holder = None
        /\ Other.entities[i].pos # player(Focused).pos
  /\ Cardinality(InstancesOf(rb, B1)) = 1

\* C4: inherit-merge of an empty-handed focused player with another branch
\* whose player holds B yields a branch in which B is held, has exactly one
\* instance, and that instance is at the focused player's position.
C4_InheritMergeHoldsOtherBox ==
  \A B \in HeldSet(Other) :
    (fn = <<"inherit">> /\ HeldSet(Focused) = {})
      => /\ B \in HeldSet(rb)
         /\ Cardinality(InstancesOf(rb, B)) = 1
         /\ \A i \in InstancesOf(rb, B) :
               /\ rb.entities[i].holder = 0
               /\ rb.entities[i].pos = player(Focused).pos

C4_Witness ==
  /\ fn = <<"inherit">>
  /\ HeldSet(Focused) = {} /\ HeldSet(Other) = {B2}
  /\ player(Focused).pos # player(Other).pos
  /\ InstancesOf(Focused, B2) # {}
  /\ HeldSet(rb) = {B2}

\* the boxes whose positions differ between main and sub
MovedInSub == {u \in BoxUids(main_branch) :
                 {main_branch.entities[i].pos : i \in InstancesOf(main_branch, u)}
                 # {sub_branch.entities[i].pos : i \in InstancesOf(sub_branch, u)}}

PushedAndMerged == fn = <<"diverge", "push", "converge">>

NoShadowIn(b) == \A u \in BoxUids(b) : ~is_shadow(b, u)

\* C6: for a branch B without shadows, converge(diverge(B), B), focused on
\* the copy, equals B in every entity (id, position, layer, holder,
\* collision, order) and in terrain.
C6_DivergeConvergeRoundTrip ==
  (fn = <<"diverge", "converge">> /\ current_focus = 1 /\ NoShadowIn(main_branch))
    => /\ rb.entities = main_branch.entities
       /\ rb.terrain = main_branch.terrain
       /\ rb.grid_size = main_branch.grid_size

C6_Witness ==
  /\ fn = <<"diverge", "converge">> /\ current_focus = 1
  /\ NoShadowIn(main_branch)
  /\ HeldSet(main_branch) # {}
  /\ Len(main_branch.entities) = 3
  /\ rb.entities = main_branch.entities

\* what a merge performed right now would leave as the main branch
MergedNow ==
  IF has_branched THEN settle_carried(converge(Focused, Other))
  ELSE main_branch

VictoryIn(b) ==
  /\ \A pos \in DOMAIN b.terrain :
        b.terrain[pos] = "SWITCH" => sum_weight_at(b, pos) > 0
  /\ TerrainGet(b, player(b).pos) = "GOAL"

\* C7: check_victory returns true and sets the victory flag exactly when the
\* state a merge performed right now would produce has every Switch weighted
\* and the player on a Goal cell, branched or not.
C7_VictoryOnMergePreview ==
  last_op = "check_victory"
    => /\ (ret = "True") <=> VictoryIn(MergedNow)
       /\ victory <=> VictoryIn(MergedNow)

\* the intents the controller can reject
Intents == {"handle_move", "handle_pickup", "handle_drop",
            "handle_adaptive_action", "try_branch", "try_merge",
            "switch_focus"}

\* C8: an intent the controller rejects (returns False) leaves both branches
\* (the player's facing included), focus, hasBranched, history and input log
\* unchanged.
C8_RejectedChangesNothing ==
  [][(last_op' \in Intents /\ ret' = "False")
       => UNCHANGED <<main_branch, sub_branch, current_focus, has_branched,
                      history, input_log>>]_vars

\* C9: every controller operation completes and returns without raising.
C9_NoOperationRaises == ret # "AttributeError"

InitialSnapshot ==
  GameSnapshot(init_branch_from_source(source), NoBranch, 0, FALSE)

\* C10: when as many successful undos as accepted actions have been made
\* since reset (the history is back to one snapshot), main, sub, focus,
\* hasBranched and the input log have their initial values and the history
\* holds exactly the initial snapshot.
C10_UndoRoundTrip ==
  (last_op = "undo" /\ ret = "True" /\ Len(history) = 1)
    => /\ main_branch = init_branch_from_source(source)
       /\ sub_branch = NoBranch
       /\ current_focus = 0
       /\ has_branched = FALSE
       /\ input_log = <<>>
       /\ history = <<InitialSnapshot>>

C10_Witness ==
  /\ last_op = "undo" /\ ret = "True" /\ Len(history) = 1
  /\ main_branch = init_branch_from_source(source)

\* C11: undo on a session whose history holds only the initial snapshot
\* returns False and leaves main, sub, focus, hasBranched, collapsed, victory,
\* history and input log unchanged.
C11_UndoBoundary ==
  [][(last_op' = "undo" /\ Len(history) = 1)
       => (ret' = "False" /\ UNCHANGED session)]_vars

\* a refused undo in a session that has collapsed, or whose player has turned,
\* since the initial snapshot was taken
C11_Witness ==
  /\ last_op = "undo" /\ ret = "False" /\ Len(history) = 1
  /\ (collapsed \/ main_branch # init_branch_from_source(source))

\* one element was appended to the sequence
AppendedOne(old, new) ==
  Len(new) = Len(old) + 1 /\ SubSeq(new, 1, Len(old)) = old

\* the last element was removed from the sequence
RemovedOne(old, new) ==
  Len(old) = Len(new) + 1 /\ SubSeq(old, 1, Len(new)) = new

HistoryStep ==
  /\ (last_op' \in Intents /\ ret' = "True")
       => AppendedOne(history, history') /\ AppendedOne(input_log, input_log')
  /\ (last_op' \in Intents /\ ret' = "False")
       => UNCHANGED <<history, input_log>>
  /\ (last_op' = "undo" /\ ret' = "True") => RemovedOne(history, history')

\* C12: every accepted intent (an operation other than undo that returns
\* True) appends exactly one snapshot to the history and one entry to the
\* input log, every rejected intent appends none, every successful undo
\* removes exactly one snapshot, and the history never holds fewer than one
\* snapshot.
C12_HistoryAccounting ==
  [](Len(history) >= 1) /\ [][HistoryStep]_vars

\* a successful undo after two accepted intents
C12_Witness ==
  /\ last_op = "undo" /\ ret = "True"
  /\ Len(history) = 2 /\ Len(input_log) = 1

\* the declared fields of the session (an ad-hoc attribute is not compared)
Declared(S) ==
  [S EXCEPT !.main_branch = Copy(S.main_branch),
            !.sub_branch = IF S.sub_branch # NoBranch THEN Copy(S.sub_branch)
                           ELSE NoBranch]

\* update_physics has nothing to settle in the level as loaded
StartsSettled ==
  step(init_branch_from_source(source)).state = init_branch_from_source(source)

\* C13: replaying exactly the logged intents, in order, on a fresh session of
\* the same level reproduces the final main, sub, focus and hasBranched of
\* the play that logged them, rejected inputs in between included.
C13_ReplayReproducesState ==
  (~Crashed /\ StartsSettled)
    => Declared(Replay(FreshSession(source), input_log))
       = Declared(SessionOf(main_branch, sub_branch, current_focus,
                            has_branched))

\* C14: for every branch state, a second Physics.step right after a first one
\* changes nothing and returns the same result (OK or FALL) as the first.
C14_StepIdempotent ==
  [][last_op' = "update_physics"
       => /\ step(get_active_branch').state = get_active_branch'
          /\ step(get_active_branch').result = step(get_active_branch).result]_vars

\* the first step has buried a box in each of the two holes
C14_Witness ==
  /\ last_op = "update_physics"
  /\ \A i \in {2, 3} : history[1].main_branch.entities[i].z = 0
  /\ \A i \in {2, 3} : main_branch.entities[i].z = -1
  /\ main_branch.entities[2].pos # main_branch.entities[3].pos

\* the player's cell is a Hole with no Buried entity in it and no box on it
OnOpenHole(b) ==
  /\ TerrainGet(b, player(b).pos) = "HOLE"
  /\ ~is_hole_filled(b, player(b).pos)
  /\ \A i \in 2..Len(b.entities) :
        b.entities[i].pos = player(b).pos => b.entities[i].z > 0

\* C15: for every branch in which the player's cell is a Hole with no Buried
\* entity in it and no box on it, Physics.step returns FALL, and
\* update_physics then sets the collapsed flag.
C15_FallOnOpenHole ==
  [][(last_op' = "update_physics" /\ OnOpenHole(get_active_branch))
       => (step(get_active_branch).result = "FALL" /\ collapsed')]_vars

\* the player has collapsed on an open hole while the other hole got filled
C15_Witness ==
  /\ last_op = "update_physics" /\ collapsed
  /\ OnOpenHole(main_branch)
  /\ OnOpenHole(history[1].main_branch)
  /\ main_branch # history[1].main_branch

\* the push of FnDivergePush: sub's player has taken the cell of the pushed
\* entities, which main still shows where they were
PushedIdx == EntitiesAtNew(main_branch, player(sub_branch).pos)

PushPos == Add(player(sub_branch).pos, player(sub_branch).direction)

PushedOntoOpenHole ==
  /\ fn = <<"diverge", "push">>
  /\ TerrainGet(main_branch, PushPos) = "HOLE"
  /\ ~is_hole_filled(main_branch, PushPos)

C17_VictoryCheckHasNoSideEffect ==
  [][last_op' \in {"check_victory", "get_merge_preview"}
       => UNCHANGED <<main_branch, sub_branch, current_focus, has_branched,
                      history>>]_vars

\* a preview of a branched session in which settle_carried had work to do
C17_Witness ==
  /\ last_op = "get_merge_preview" /\ has_branched
  /\ rb # converge(Focused, Other)
  /\ history = <<GameSnapshot(main_branch, sub_branch, current_focus,
                              has_branched)>>

\* the operations that act on the branch under control
BranchOps == {"handle_move", "handle_pickup", "handle_drop",
              "handle_adaptive_action", "update_physics"}

\* the snapshots already stored are the same after the step
StoredSnapshotsKept ==
  \A k \in 1..Len(history) : k <= Len(history') => history'[k] = history[k]

\* C18: while branched, every move, turn, pickup, drop, adaptive action and
\* physics update through the controller leaves the non-focused branch
\* (entities and terrain) unchanged, and no action changes a snapshot that
\* the history already holds.
C18_BranchIsolation ==
  [][/\ (has_branched /\ last_op' \in BranchOps)
          => IF current_focus = 0 THEN sub_branch' = sub_branch
             ELSE main_branch' = main_branch
     /\ StoredSnapshotsKept]_vars

\* the focused branch has moved on from the other one and from the snapshot
\* taken at the branch
C18_Witness ==
  /\ has_branched /\ last_op \in BranchOps
  /\ Copy(Focused) # Copy(Other)
  /\ history[Len(history)].has_branched
  /\ Copy(Focused) # IF current_focus = 0
                     THEN history[Len(history)].main_branch
                     ELSE history[Len(history)].sub_branch

\* C19: in every reachable state of the session the sub branch is present
\* exactly when hasBranched is true, and the focus designates the sub branch
\* only while hasBranched is true.
C19_SubIffBranched ==
  /\ (sub_branch # NoBranch) <=> has_branched
  /\ current_focus = 1 => has_branched
  /\ current_focus \in {0, 1}

\* a merge made while the focus was on sub
C19_Witness ==
  /\ last_op = "try_merge" /\ ret = "True"
  /\ ~has_branched /\ sub_branch = NoBranch /\ current_focus = 0
  /\ history[Len(history) - 1].current_focus = 1

\* C20: try_branch called while a branch already exists, or while the active
\* player is not on a BranchPoint cell (BRANCH1..4), returns False; sub stays
\* as it was, the terrain is not decremented and no snapshot is saved.
C20_BranchRefused ==
  [][(/\ last_op' = "try_branch"
      /\ \/ has_branched
         \/ TerrainGet(get_active_branch, player(get_active_branch).pos)
              \notin DOMAIN BRANCH_DECREMENT)
       => /\ ret' = "False"
          /\ UNCHANGED <<main_branch, sub_branch, current_focus,
                         has_branched, history, input_log>>]_vars

\* refused only because a branch exists: the player still stands on a
\* BranchPoint with uses left
C20_Witness ==
  /\ last_op = "try_branch" /\ ret = "False"
  /\ has_branched
  /\ TerrainGet(get_active_branch, player(get_active_branch).pos)
       \in DOMAIN BRANCH_DECREMENT

\* ---- C21 ----
\* C21: after a successful try_branch the sub branch equals the main branch
\* in every entity, in terrain and in grid size; the entities of the main
\* branch are the ones it had, and the BranchPoint cell under the player has
\* one use fewer in both branches (4 -> 3 -> 2 -> 1 -> Floor) while every
\* other cell keeps its terrain.
BranchedNow ==
  /\ last_op' = "try_branch"
  /\ ret' = "True"

C21_BranchCopiesAndDecrements ==
  [][BranchedNow =>
       LET cell == player(main_branch).pos
           old == TerrainGet(main_branch, cell)
       IN  /\ old \in DOMAIN BRANCH_DECREMENT
           /\ sub_branch' # NoBranch
           /\ Copy(sub_branch') = Copy(main_branch')
           /\ main_branch'.entities = main_branch.entities
           /\ main_branch'.grid_size = main_branch.grid_size
           /\ main_branch'.terrain =
                [main_branch.terrain EXCEPT ![cell] = BRANCH_DECREMENT[old]]
           /\ TerrainGet(sub_branch', cell) = BRANCH_DECREMENT[old]]_vars

\* a branch was taken on a cell that had four uses, after a box was picked up
C21_Witness ==
  /\ last_op = "try_branch"
  /\ ret = "True"
  /\ TerrainGet(main_branch, player(main_branch).pos) = "BRANCH3"
  /\ TerrainGet(sub_branch, player(sub_branch).pos) = "BRANCH3"
  /\ \E i \in DOMAIN main_branch.entities : main_branch.entities[i].carrier = 0

\* ---- C24 ----
\* exactly one Player entity, of id 0, and it is the first element
OnePlayerFirst(b) ==
  /\ Len(b.entities) >= 1
  /\ b.entities[1].uid = 0
  /\ b.entities[1].type = "player"
  /\ \A i \in 2..Len(b.entities) :
        b.entities[i].uid # 0 /\ b.entities[i].type # "player"

\* every branch the session holds: main, sub, and those of the snapshots
SessionBranches ==
  ({main_branch, sub_branch}
   \cup {history[i].main_branch : i \in DOMAIN history}
   \cup {history[i].sub_branch : i \in DOMAIN history}) \ {NoBranch}

\* C24: every branch (main, sub, the result of a merge, every history
\* snapshot) contains exactly one Player entity, with id 0, as first element.
C24_OnePlayerFirst == \A b \in SessionBranches : OnePlayerFirst(b)

\* a merge has just produced a main branch with a box in shadow, and the
\* history holds a branched snapshot
C24_Witness ==
  /\ last_op = "try_merge"
  /\ ret = "True"
  /\ \E i \in DOMAIN main_branch.entities :
        is_shadow(main_branch, main_branch.entities[i].uid)
  /\ \E i \in DOMAIN history : history[i].sub_branch # NoBranch

\* ---- C25 ----
\* the box ids the player of b has in hand: the instances marked as held by
\* the declared field (holder, read by get_held_items) or by the attribute
\* try_pickup writes and try_drop reads (carrier)
InHand(b) ==
  {b.entities[i].uid : i \in {j \in DOMAIN b.entities :
                                 \/ b.entities[j].holder = 0
                                 \/ b.entities[j].carrier = 0}}

\* C25: in every state reachable through the controller's intents, the
\* player of each branch has at most one distinct box id in hand.
C25_AtMostOneInHand ==
  \A b \in {main_branch, sub_branch} \ {NoBranch} : Cardinality(InHand(b)) <= 1

\* ---- C27 ----
\* the player of the active branch stands on a NoCarry cell and faces a
\* grounded box that is not in shadow
OnNoCarryFacingSolid ==
  LET active == get_active_branch
      front_pos == Add(player(active).pos, player(active).direction)
      t == find_box_at(active, front_pos)
  IN  /\ effective_capacity(active, NoPos) = 0
      /\ t # 0
      /\ ~is_shadow(active, active.entities[t].uid)

\* C27: while the player stands on a NoCarry cell (effective_capacity = 0) a
\* pickup, by handle_pickup or by the adaptive action facing a solid box, is
\* rejected and no box comes into the player's hand.
C27_NoCarryRejectsPickup ==
  [][(/\ OnNoCarryFacingSolid
      /\ last_op' \in {"handle_pickup", "handle_adaptive_action"})
     => (/\ ret' = "False"
         /\ UNCHANGED <<main_branch, sub_branch>>)]_vars

\* ---- C28 ----
\* the box entities[i] of b is the single instance of its id, on the Held
\* layer, held by the player, without collision, at the player's cell
HeldByPlayer(b, i) ==
  /\ b.entities[i].type = "box"
  /\ ~is_shadow(b, b.entities[i].uid)
  /\ b.entities[i].z = 1
  /\ b.entities[i].holder = 0
  /\ b.entities[i].collision = 0
  /\ b.entities[i].pos = player(b).pos

\* C28: after a pickup has returned True the picked box has exactly one
\* instance, on the Held layer, with holder = player, collision 0 and the
\* player's cell as position, and get_held_items reports it.
C28_PickedBoxIsHeld ==
  (last_op = "handle_pickup" /\ ret = "True")
  => LET active == get_active_branch
     IN  \E i \in DOMAIN active.entities :
           /\ HeldByPlayer(active, i)
           /\ active.entities[i].uid \in Range(get_held_items(active))

\* ---- C30 ----
\* the cell the player of b faces
FrontPos(b) == Add(player(b).pos, player(b).direction)

\* the faced cell can take a dropped box: in bounds, not a Wall, collision <= 0
FrontFree(b) ==
  /\ in_bound(FrontPos(b), b)
  /\ TerrainGet(b, FrontPos(b)) # "WALL"
  /\ collision_at(FrontPos(b), b) <= 0

\* every instance of a uid of U is on the Ground or Buried layer at pos,
\* unheld and with collision 1
DroppedAll(b, U, pos) ==
  \A i \in DOMAIN b.entities :
    b.entities[i].uid \in U =>
      /\ b.entities[i].pos = pos
      /\ b.entities[i].holder = None
      /\ b.entities[i].carrier \notin {0}
      /\ b.entities[i].collision = 1
      /\ b.entities[i].z \in {0, -1}

InstanceSeq(b, uid) == get_entities_by_uid(b, uid)

\* the positions of the instances of uid in b, in entity order
PositionsOf(b, uid) == MapSeq(InstanceSeq(b, uid), LAMBDA e : e.pos)

ShadowUids(b) ==
  {b.entities[i].uid : i \in {j \in DOMAIN b.entities :
                                 is_shadow(b, b.entities[j].uid)}}

\* C26: no move changes the position of any instance of an id that is in
\* shadow.
C26_MoveLeavesShadowsInPlace ==
  [][last_op' = "handle_move"
     => \A uid \in ShadowUids(get_active_branch) :
          PositionsOf(get_active_branch', uid)
            = PositionsOf(get_active_branch, uid)]_vars

\* ---- C29 ----
\* a pickup targets a grounded box at the faced cell whose id is in shadow,
\* with no instance of it held
PickupTargetsShadow(b) ==
  LET t == find_box_at(b, FrontPos(b))
  IN  /\ t # 0
      /\ is_shadow(b, b.entities[t].uid)
      /\ \A i \in DOMAIN b.entities :
            b.entities[i].uid = b.entities[t].uid => b.entities[i].holder = None

\* C29: when a pickup targets a Ground box at the faced cell whose id is in
\* shadow and none of its instances is held, the one instance left of that
\* id is the one that lay at the faced cell (now at the player's cell, with
\* collision 0), never an instance from another position such as a Buried
\* copy in a hole.
C29_PickupKeepsFacedInstance ==
  [][(last_op' = "handle_pickup" /\ PickupTargetsShadow(get_active_branch))
     => LET b == get_active_branch
            t == find_box_at(b, FrontPos(b))
        IN  /\ ret' = "True"
            /\ InstanceSeq(get_active_branch', b.entities[t].uid)
                 = <<[b.entities[t] EXCEPT !.carrier = 0, !.collision = 0,
                                          !.pos = player(b).pos]>>]_vars

\* ---- C22 ----
\* C22: once collapsed or victory is set, no input of the main loop other
\* than undo or reset changes main, sub, focus or the history, and the flag
\* stays set until undo or reset clears it.
C22_TerminalBlocksPlay ==
  [][((collapsed \/ victory) /\ last_op' \notin {"key_reset", "key_undo"})
     => (/\ UNCHANGED <<main_branch, sub_branch, current_focus, history>>
         /\ collapsed => collapsed'
         /\ victory => victory')]_vars

\* a key other than undo and reset has been pressed on a won session
C22_Witness ==
  /\ victory
  /\ last_op = "key"

\* ---- C23 ----
\* C23: every accepted mutating intent is followed by update_physics on the
\* active branch before the next intent is applied: no handler of the loop
\* applies an accepted intent to a session in which an accepted intent has
\* not been settled yet.
C23_IntentsFindBranchSettled == ~win.overlap

\* ---- C31 ----
\* the entities of b in the player's hand (see InHand) are at the player's cell
HandAtPlayer(b) ==
  \A i \in DOMAIN b.entities :
     (b.entities[i].holder = 0 \/ b.entities[i].carrier = 0)
     => b.entities[i].pos = player(b).pos

\* C31: in every reachable state of every branch each entity the player has
\* in hand is at the player's cell; a move of a player who carries a box
\* leaves the box at the player's new position.
C31_HeldFollowsPlayer ==
  \A b \in {main_branch, sub_branch} \ {NoBranch} : HandAtPlayer(b)

\* ---- C32 ----
\* dropIds: the ids held in other and not in focused, when focused holds
\* something
DropIds(focused, other) ==
  IF HeldSet(focused) # {} THEN HeldSet(other) \ HeldSet(focused) ELSE {}

\* rb is the result of Timeline.converge(Focused, Other)
ConvergeDone == fn # <<>> /\ fn[Len(fn)] = "converge"

\* C32: every instance in the result of converge(focused, other) whose id is
\* in dropIds is on the Ground layer with collision 1 at other's player
\* position, the instances that were held in neither branch included.
C32_EveryDropIdInstanceRelocated ==
  ConvergeDone
  => \A i \in DOMAIN rb.entities :
        rb.entities[i].uid \in DropIds(Focused, Other)
        => /\ rb.entities[i].z = 0
           /\ rb.entities[i].collision = 1
           /\ rb.entities[i].pos = player(Other).pos

\* C32 as the code has it: no instance of a dropIds id is held in the result;
\* the instance other's player held is on the Ground layer with collision 1
\* at other's player position; an instance of that id that was held in
\* neither branch is kept as it was, where it was.
C32_HeldDropIdInstanceRelocated ==
  ConvergeDone
  => LET D == DropIds(Focused, Other)
         both == Range(Focused.entities) \cup Range(Other.entities)
     IN  /\ \A i \in DOMAIN rb.entities :
               rb.entities[i].uid \in D => rb.entities[i].holder = None
         /\ \A u \in D : \E i \in InstancesOf(rb, u) :
               /\ rb.entities[i].z = 0
               /\ rb.entities[i].collision = 1
               /\ rb.entities[i].pos = player(Other).pos
         /\ \A e \in both :
               (/\ e.uid \in D
                /\ e.holder # 0
                /\ ~\E h \in both : h.uid = e.uid /\ h.pos = e.pos /\ h.holder = 0)
               => \E i \in DOMAIN rb.entities : rb.entities[i] = _copy_entity(e)

\* a converge has dropped the box other's player held, and the result also
\* has an instance of that box that lies elsewhere
C32_Witness ==
  /\ ConvergeDone
  /\ \E i \in DOMAIN rb.entities :
        /\ rb.entities[i].uid \in DropIds(Focused, Other)
        /\ rb.entities[i].pos # player(Other).pos
  /\ \E i \in DOMAIN rb.entities :
        /\ rb.entities[i].uid \in DropIds(Focused, Other)
        /\ rb.entities[i].pos = player(Other).pos

\* ---- C33 ----
\* the arguments of the converge_one call that produced rb
CalledUid == CHOOSE u \in OneUids : UidTag(u) = fn[2]
CalledPos == CHOOSE p \in OnePositions : PosTag(p) = fn[3]

\* the instance of uid the claim says is kept: the first held one, else the
\* first at pos when pos is given and an instance lies there, else the first
KeptInstance(b, uid, pos) ==
  LET inst == InstanceSeq(b, uid)
      held == SelectSeq(inst, LAMBDA e : e.holder = 0)
      at_pos == SelectSeq(inst, LAMBDA e : e.pos = pos)
  IN  IF held # <<>> THEN held[1]
      ELSE IF pos # NoPos /\ at_pos # <<>> THEN at_pos[1]
      ELSE inst[1]

\* C33: after converge_one(branch, id, preferredPos) on an id with at least
\* one instance exactly one instance of id remains: the held one if there was
\* one, else the one at preferredPos if given and present, else the first;
\* the entities of every other id are unchanged and keep their order.
C33_ConvergeOneKeepsOne ==
  (fn # <<>> /\ InstanceSeq(main_branch, CalledUid) # <<>>)
  => /\ InstanceSeq(rb, CalledUid)
          = <<KeptInstance(main_branch, CalledUid, CalledPos)>>
     /\ SelectSeq(rb.entities, LAMBDA e : e.uid # CalledUid)
          = SelectSeq(main_branch.entities, LAMBDA e : e.uid # CalledUid)
     /\ rb.terrain = main_branch.terrain
     /\ rb.grid_size = main_branch.grid_size

\* converge_one was called with the cell of the first instance, a Ground one,
\* while a later instance was held: the held one is what remains
C33_Witness ==
  /\ fn # <<>>
  /\ Len(InstanceSeq(main_branch, CalledUid)) >= 2
  /\ InstanceSeq(main_branch, CalledUid)[1].holder # 0
  /\ InstanceSeq(main_branch, CalledUid)[1].pos = CalledPos
  /\ \E e \in Range(InstanceSeq(main_branch, CalledUid)) : e.holder = 0
  /\ InstanceSeq(rb, CalledUid)[1].holder = 0

\* ---- C34 ----
\* the player of b holds nothing and faces a grounded box whose id is in shadow
FacesShadowEmptyHanded(b) ==
  LET t == find_box_at(b, FrontPos(b))
  IN  /\ get_held_items(b) = <<>>
      /\ t # 0
      /\ is_shadow(b, b.entities[t].uid)

\* C34: handle_adaptive_action by an empty-handed player who faces a Ground
\* box whose id is in shadow leaves exactly one instance of that id, at the
\* faced cell on the Ground layer; the player still holds nothing and exactly
\* one snapshot is saved.
C34_AdaptiveConvergesOnFacedCell ==
  [][(/\ last_op' = "handle_adaptive_action"
      /\ FacesShadowEmptyHanded(get_active_branch))
     => LET b == get_active_branch
            uid == b.entities[find_box_at(b, FrontPos(b))].uid
            after == InstanceSeq(get_active_branch', uid)
        IN  /\ ret' = "True"
            /\ Len(after) = 1
            /\ after[1].pos = FrontPos(b)
            /\ after[1].z = 0
            /\ after[1].holder = None
            /\ get_held_items(get_active_branch') = <<>>
            /\ player(get_active_branch') = player(b)
            /\ history' = Append(history,
                                 GameSnapshot(main_branch', sub_branch',
                                              current_focus', has_branched'))]_vars

\* the adaptive action has just converged a box: a snapshot ago its id had
\* several instances, now it has one, which lies at the faced cell
C34_Witness ==
  /\ last_op = "handle_adaptive_action"
  /\ ret = "True"
  /\ Len(history) >= 2
  /\ \E i \in DOMAIN get_active_branch.entities :
        LET e == get_active_branch.entities[i]
            before == IF current_focus = 0
                      THEN history[Len(history) - 1].main_branch
                      ELSE history[Len(history) - 1].sub_branch
        IN  /\ e.type = "box"
            /\ e.pos = FrontPos(get_active_branch)
            /\ Len(InstanceSeq(get_active_branch, e.uid)) = 1
            /\ Len(InstanceSeq(before, e.uid)) >= 2

\* ---- C35 ----
\* the positions of the entities of a branch, in entity order
EntityPositions(b) ==
  IF b = NoBranch THEN <<>> ELSE MapSeq(b.entities, LAMBDA e : e.pos)

\* handle_move changes the facing only to the input direction, so a step of
\* handle_move that changes the facing was called with the new facing, and
\* one that leaves it was called with the current facing
\* C35: when the player has something in hand, or a Ground box occupies the
\* cell in the input direction, a handle_move whose direction differs from
\* the current facing only changes the facing: no entity position changes in
\* any branch, exactly one snapshot is saved and True is returned; the player
\* moves in that situation only in the direction already faced.
C35_TurnBeforeMove ==
  [][(/\ last_op' = "handle_move"
      /\ \/ InHand(get_active_branch) # {}
         \/ has_box_at(get_active_branch,
                       Add(player(get_active_branch).pos,
                           player(get_active_branch').direction)))
     => /\ player(get_active_branch').direction
             # player(get_active_branch).direction
           => /\ EntityPositions(main_branch') = EntityPositions(main_branch)
              /\ EntityPositions(sub_branch') = EntityPositions(sub_branch)
              /\ history' = Append(history,
                                   GameSnapshot(main_branch', sub_branch',
                                                current_focus', has_branched'))
              /\ ret' = "True"
        /\ player(get_active_branch').pos # player(get_active_branch).pos
           => player(get_active_branch').pos
                = Add(player(get_active_branch).pos,
                      player(get_active_branch).direction)]_vars

\* ---- C36 ----
\* the number of passes the "while True" loop of step makes over b
RECURSIVE StepPasses(_)
StepPasses(b) ==
  LET n == StepPass(b, 1) IN IF n = b THEN 1 ELSE 1 + StepPasses(n)

GroundBoxes(b) ==
  {i \in 1..Len(b.entities) : b.entities[i].type = "box" /\ b.entities[i].z = 0}

\* no Ground-layer box of b lies on a Hole cell without a Buried entity
NoBoxOverOpenHole(b) ==
  \A i \in GroundBoxes(b) :
     TerrainGet(b, b.entities[i].pos) = "HOLE"
       => is_hole_filled(b, b.entities[i].pos)

\* C36: Physics.step terminates on every branch state (each pass but the
\* last buries a Ground box, so there are at most one more passes than
\* Ground boxes), and when it returns no Ground-layer box is located on a
\* Hole cell that has no Buried entity.
C36_StepTerminatesSettled ==
  [][last_op' = "update_physics"
       => /\ StepPasses(get_active_branch)
               <= Cardinality(GroundBoxes(get_active_branch)) + 1
          /\ get_active_branch' = step(get_active_branch).state
          /\ NoBoxOverOpenHole(get_active_branch')]_vars

\* step has run on two Ground boxes lying on one open hole: the first is
\* Buried, the second stays on the Ground layer of the hole that is now filled
C36_Witness ==
  /\ last_op = "update_physics"
  /\ history[1].main_branch.entities[2].z = 0
  /\ history[1].main_branch.entities[3].z = 0
  /\ main_branch.entities[2].pos = main_branch.entities[3].pos
  /\ TerrainGet(main_branch, main_branch.entities[2].pos) = "HOLE"
  /\ main_branch.entities[2].z = -1
  /\ main_branch.entities[3].z = 0

\* ---- C37 ----
\* every entity instance of b is inside the grid and not on a Wall cell
OnBoard(b) ==
  \A i \in 1..Len(b.entities) :
     /\ in_bound(b.entities[i].pos, b)
     /\ TerrainGet(b, b.entities[i].pos) # "WALL"

\* C37: the initial entities of every level are in bounds and off the Wall
\* cells, and in every reachable state every entity instance of every branch
\* is inside the grid and not on a Wall cell; a pushed box is never relocated
\* out of bounds or into a Wall.
C37_EntitiesStayOnBoard ==
  /\ OnBoard(init_branch_from_source(source))
  /\ \A b \in SessionBranches : OnBoard(b)

\* ---- C38 ----
\* the uses a terrain type has left as a BranchPoint
UsesLeft(t) ==
  IF t = "BRANCH4" THEN 4
  ELSE IF t = "BRANCH3" THEN 3
  ELSE IF t = "BRANCH2" THEN 2
  ELSE IF t = "BRANCH1" THEN 1
  ELSE 0

Uses(b, p) == UsesLeft(TerrainGet(b, p))

\* C38: on every step other than undo and reset, a try_branch succeeds on the
\* player's cell only while that cell has a use left and consumes exactly one
\* (the cell with one use becomes Floor); no other step, a merge focused on
\* either branch included, changes the uses of any cell, both branches carry
\* the same uses, and no cell ever has more uses than in the level. Hence the
\* successful branches on a cell never outnumber its initial uses.
C38_BranchUsesBounded ==
  [][last_op' \notin {"undo", "reset"}
       => \A p \in Pos :
            LET before == Uses(main_branch, p)
                after == Uses(main_branch', p)
                branched == /\ last_op' = "try_branch"
                            /\ ret' = "True"
                            /\ p = player(get_active_branch).pos
            IN  /\ branched => before >= 1 /\ after = before - 1
                /\ ~branched => after = before
                /\ sub_branch' # NoBranch => Uses(sub_branch', p) = after
                /\ after <= UsesLeft(source.terrain[p])]_vars

\* a branch, a merge, and a try_branch refused on the cell whose last use
\* the branch has consumed
C38_Witness ==
  /\ last_op = "try_branch"
  /\ ret = "False"
  /\ input_log = <<"V", "C">>
  /\ UsesLeft(source.terrain[player(main_branch).pos]) = 1
  /\ TerrainGet(main_branch, player(main_branch).pos) = "FLOOR"

\* ---- C39 ----
\* the box ids the LevelSource defines
SourceBoxIds ==
  {i - 1 : i \in {j \in DOMAIN source.entity_definitions :
                    source.entity_definitions[j][1] = "box"}}

\* the ids of the box instances of b
BoxIds(b) ==
  {b.entities[i].uid : i \in {j \in DOMAIN b.entities :
                                b.entities[j].type = "box"}}

\* C39: in every reachable state the box instances of main, and of sub
\* while branched, carry exactly the box ids the LevelSource defines: every
\* defined id has at least one instance and no instance has another id.
C39_BoxConservation ==
  /\ BoxIds(main_branch) = SourceBoxIds
  /\ has_branched => sub_branch # NoBranch /\ BoxIds(sub_branch) = SourceBoxIds
  /\ sub_branch # NoBranch => BoxIds(sub_branch) = SourceBoxIds

\* a box was picked up in one branch and the branches were merged: the id
\* has two instances in main, every other defined id still has one
C39_Witness ==
  /\ last_op = "try_merge"
  /\ ret = "True"
  /\ "P" \in Range(input_log)
  /\ Cardinality(SourceBoxIds) = 2
  /\ \E uid \in SourceBoxIds :
        /\ Len(InstanceSeq(main_branch, uid)) = 2
        /\ \A other \in SourceBoxIds \ {uid} :
              Len(InstanceSeq(main_branch, other)) = 1

\* ---- C40 ----
\* C40: in the Arcade window, whatever the interleaving of key presses with
\* the completion of a slide or preview-swap animation in on_update,
\* current_focus is never 1 while the session is unbranched (sub absent), so
\* get_active_branch never returns a missing branch.
C40_FocusOneOnlyWhileBranched ==
  win.loop = "arcade"
    => /\ current_focus = 1 => has_branched /\ sub_branch # NoBranch
       /\ get_active_branch # NoBranch
====
